---- MODULE Spec2Model ----
(***************************************************************************)
(* A model of src/app.py: the file-persisted Job Registry, the single-job  *)
(* production workers (_run_generate, _run_chat), the Series Coordinator   *)
(* (_run_create_series, _run_series), and the request handlers that start  *)
(* them.                                                                   *)
(*                                                                         *)
(* Granularity.  A step of a thread is one access to a shared JSON         *)
(* document together with the thread-local computation and the calls to    *)
(* the generation and speech services that precede it since the previous   *)
(* access.  The registry operations run under _jobs_lock, so each is one   *)
(* atomic step.  series.json, episodes.json and production_log.json are    *)
(* read and written without a lock, so a load and the save that follows it *)
(* are two steps and other threads may run in between.                     *)
(*                                                                         *)
(* Environment.  Reads of a document never raise (the loaders swallow      *)
(* every exception) and writes succeed.  Calls to the speech service may   *)
(* raise.  uuid.uuid4() is taken never to return an 8-character prefix     *)
(* that it returned before: identifiers are handed out in sequence.        *)
(* datetime.now() is a clock that has advanced between two readings used   *)
(* as created_at; the second-resolution timestamp of an episode id is the  *)
(* variable sec, advanced by Tick.                                         *)
(*                                                                         *)
(* Scale.  The retention limit of 200 records (src/app.py:117) is modelled *)
(* by RetainCap; the registry logic depends on the limit only through      *)
(* comparisons with the number of records.                                 *)
(***************************************************************************)
EXTENDS Naturals, Integers, Sequences, FiniteSets, TLC

\* ------------------------------------------------------------------ bounds
NReq == 3           \* single-job submissions (api_generate, api_chat)
NSeries == 2        \* series submissions (api_series_create)
MaxEpisodes == 2    \* longest outline the generation service returns
MaxSec == 1         \* seconds the wall clock advances during a run
MaxActive == 2      \* submissions in progress at the same time
RetainCap == 2      \* stands for the 200 of _save_jobs
MaxDay == 1         \* calendar dates that begin during a run
MaxNow == 2         \* granules the file-system clock advances during a run
MaxWrites == 3      \* writes of the two cache files during a run
NTitles == 4        \* distinct topic titles in the engagement log
MaxLog == 4         \* events in an engagement log that is summarised
InterestCap == 2    \* stands for the 20 of strong_interest[-20:], moderate_interest[-20:]
DismissedCap == 3   \* stands for the 30 of dismissed[-30:]
NSavers == 2        \* threads inside save_engagement_event at the same time
MaxSaves == 5       \* events saved during a run
EventCap == 3       \* stands for the 2000 of save_engagement_event
DayUnits == 2       \* units of the clock in one day
WeekDays == 7       \* timedelta(days=7)
WeeklyCap == 2      \* stands for WEEKLY_CAP = 50
MaxDeletes == 2     \* delete requests answered
MaxUpdates == 3     \* calls of update_job on a stored registry
NJobIds == 2        \* the id prefixes uuid4 can return
MaxOps == 4         \* operations on one document
NDocIds == 3        \* ids of the records written to a document
NCallers == 2       \* threads calling the job registry
MaxCalls == 4       \* calls of the job registry
MaxInstant == 17    \* latest instant of a ledger entry or a call of productions_this_week
MaxLedger == 3      \* entries in a ledger that is counted

Reqs == 1..NReq
SeriesIdx == 1..NSeries

VARIABLES
    jobs,       \* jobs.json: job id -> record
    nextId,     \* number of uuid4 prefixes drawn so far (jobs and series)
    clock,      \* datetime.now(timezone.utc), as read for created_at
    sec,        \* datetime.now() to the second, as read for episode ids
    req,        \* the single-job submissions: handler and worker thread
    ledger,     \* production_log.json
    episodes,   \* episodes.json
    series,     \* series.json
    ser,        \* the series submissions: handler and coordinator thread
    aux,        \* the call of a function under study: its inputs and its result
    caches,     \* topics_cache.json, suggestions_cache.json, their readers and writers
    engagement, \* engagement_log.json, its lock and the threads saving an event
    feed,       \* feed.xml: the ids of its items
    del,        \* the requests to delete an Episode
    keys        \* the credentials the process was started with

vars == <<jobs, nextId, clock, sec, req, ledger, episodes, series, ser, aux, caches, engagement, feed, del, keys>>

\* ------------------------------------------------------------ job registry

NoError == "None"
NoResult == <<>>

\* created_at order; sorted() is stable and dict order is insertion order,
\* which is id order because identifiers are handed out in sequence.
Older(js, a, b) ==
    \/ js[a].created_at < js[b].created_at
    \/ js[a].created_at = js[b].created_at /\ a < b

\* a faulty _save_jobs that never evicts; C6 fails with it
save_jobs_unbounded(js) == js

\* _save_jobs: more than the limit -> delete sorted_keys[:-limit]
save_jobs(js) ==
    IF Cardinality(DOMAIN js) > RetainCap
    THEN LET n == Cardinality(DOMAIN js)
             keep == {k \in DOMAIN js :
                        Cardinality({o \in DOMAIN js : Older(js, o, k)}) >= n - RetainCap}
         IN [k \in keep |-> js[k]]
    ELSE js

\* the job dict create_job builds before it takes the lock
new_job(id, type, stamp, series_id, series_ep) ==
    [id |-> id, type |-> type, status |-> "queued", created_at |-> stamp,
     progress |-> "Queued", result |-> NoResult, error |-> NoError,
     series_id |-> series_id, series_ep |-> series_ep]

\* create_job, under the lock: jobs[job_id] = job; _save_jobs(jobs)
insert_job(js, job) ==
    save_jobs([k \in DOMAIN js \cup {job.id} |-> IF k = job.id THEN job ELSE js[k]])

\* dict.update(kwargs) on a job record
merge(rec, kw) ==
    [f \in DOMAIN rec \cup DOMAIN kw |-> IF f \in DOMAIN kw THEN kw[f] ELSE rec[f]]

\* a faulty update_job that stores the fields under an unknown id; C24 fails
\* with it
update_job_creates(js, id, kw) ==
    IF id \in DOMAIN js
    THEN save_jobs([js EXCEPT ![id] = merge(js[id], kw)])
    ELSE save_jobs([k \in DOMAIN js \cup {id} |-> IF k = id THEN kw ELSE js[k]])

\* update_job, under the lock: no-op on an unknown id (the updated_at it
\* adds to kwargs is left out where no record carries the field)
update_job(js, id, kw) ==
    IF id \in DOMAIN js
    THEN save_jobs([js EXCEPT ![id] = merge(js[id], kw)])
    ELSE js

\* update_job(job_id, **kwargs): kwargs["updated_at"] = now, then the lock
update_job_kwargs(js, id, kwargs, now) == update_job(js, id, merge(kwargs, [updated_at |-> now]))

\* a faulty clear_queue that deletes queued records only; C5 fails with it
clear_keep_errors(js) == {k \in DOMAIN js : js[k].status # "queued"}

\* clear_queue: delete queued and error records, count them
clear_keep(js) == {k \in DOMAIN js : js[k].status \notin {"queued", "error"}}

\* the count clear_queue returns: one per record it deletes
clear_count(js) == Cardinality({k \in DOMAIN js : js[k].status \in {"queued", "error"}})

clear_queue ==
    /\ jobs' = save_jobs([k \in clear_keep(jobs) |-> jobs[k]])
    /\ UNCHANGED <<nextId, clock, sec, req, ledger, episodes, series, ser, aux, caches, engagement, feed, del, keys>>

\* the wall clock passes a second boundary
Tick ==
    /\ sec < MaxSec
    /\ sec' = sec + 1
    /\ UNCHANGED <<jobs, nextId, clock, req, ledger, episodes, series, ser, aux, caches, engagement, feed, del, keys>>

\* ------------------------------------------------ collaborators and files

\* datetime.isoformat() of an instant in UTC: the calendar date, the time of
\* day and the offset "+00:00"
isoformat(t) == [date |-> t \div DayUnits, time |-> t % DayUnits, utcoffset |-> 0]

\* datetime.fromisoformat(): the instant a timestamp denotes
fromisoformat(ts) == (ts.date * DayUnits + ts.time) - ts.utcoffset

newer_or_same(ts, week_ago) == fromisoformat(ts) >= week_ago

\* datetime.fromisoformat(ts) > week_ago
newer(ts, week_ago) == fromisoformat(ts) > week_ago

\* productions_this_week at the instant now, on the ledger as loaded
productions_this_week(log, now) ==
    LET week_ago == now - WeekDays * DayUnits
    IN Cardinality({i \in 1..Len(log) : newer(log[i], week_ago)})


VoiceNotFound == "Voice not found"
Raised == "exception"

\* resolve_voice against the catalog the speech service returns: an id or None
VoiceOutcomes == {"id", "None"}

\* the generation service, per call: a parsable payload, a payload that
\* json.loads rejects, or an error raised by the call
CallOutcomes == {"ok", "bad", "fail"}

\* what a call for a script can do besides: the payload parses as JSON but is
\* the empty list, or a value with a length that is no list of segments (an
\* object, a string, a list of other things), or a value without a length (a
\* number, null)
ScriptPayloads == CallOutcomes \cup {"empty", "object", "scalar"}

\* generate_grounded_script for a topic with title and tension: the
\* web-search call, the no-search call when the first raises; whatever
\* json.loads returns is the script, unless len(script) raises; the local
\* template when anything inside the try raises
generate_grounded_script(ws, ns) ==
    LET calls == IF ws = "fail" THEN 2 ELSE 1
        last == IF ws = "fail" THEN ns ELSE ws
    IN [script |-> CASE last = "ok" -> "live"
                     [] last = "empty" -> "empty"
                     [] last = "object" -> "object"
                     [] OTHER -> "template",
        calls |-> calls]

\* the Episode record a worker builds (its title and description are the
\* topic's text, which no operation reads)
episode_entry(prefix, stamp, is_trailer, series_id, series_ep) ==
    [id |-> <<prefix, series_id, series_ep, stamp>>, is_trailer |-> is_trailer,
     series_id |-> series_id, series_ep |-> series_ep]

\* ---------------------------------------------------------------- the feed

\* feed.xml before the first rebuild: absent, and writable (faulty is the
\* environment's: while it holds, writing feed.xml raises)
NoFeed == [exists |-> FALSE, items |-> << >>, faulty |-> FALSE]

\* the instant in an Episode record (it stands for the record's published
\* field, which is read in the step that builds the record)
published(e) == e.id[4]

\* sorted(..., key=published, reverse=True): the records of instant k and
\* older, latest first, records of one instant in the order of the list
RECURSIVE sorted_latest_first(_, _)
sorted_latest_first(eps, k) ==
    IF k < 0 THEN << >>
    ELSE SelectSeq(eps, LAMBDA e : published(e) = k) \o sorted_latest_first(eps, k - 1)

\* the items build_feed writes: one per record that is not a trailer, its
\* guid the record's id
feed_items(eps) ==
    LET feed_eps == SelectSeq(eps, LAMBDA e : ~e.is_trailer)
        items == sorted_latest_first(feed_eps, MaxSec)
    IN  [i \in 1..Len(items) |-> items[i].id]

\* try: build_feed() except: print(...) after a write of the Episode list:
\* the feed is rebuilt from the list, or the rebuild raises and feed.xml is
\* left as it was
build_feed(eps, old) ==
    IF old.faulty THEN old ELSE [old EXCEPT !.exists = TRUE, !.items = feed_items(eps)]

\* the environment: feed.xml becomes unwritable, or writable again
FeedFault ==
    /\ feed' = [feed EXCEPT !.faulty = ~@]
    /\ UNCHANGED <<jobs, nextId, clock, sec, req, ledger, episodes, series, ser, aux, caches, engagement, del, keys>>

\* --------------------------------------------------- single-job submissions

NoJob == new_job(0, "none", 0, 0, 0)

\* a submission: the handler's and the worker's position and locals.  nGen,
\* nScript, nLedger, nAudio and nEpisode count what the worker has done:
\* calls of the generation service, script syntheses, ledger writes,
\* audio syntheses started, Episode records written.
IdleReq ==
    [pc |-> "idle", kind |-> "none", trailer |-> FALSE, job |-> NoJob,
     va |-> "unset", vb |-> "unset",
     entry |-> <<>>, eps |-> <<>>, log |-> <<>>,
     nGen |-> 0, nScript |-> 0, nLedger |-> 0, nAudio |-> 0, nEpisode |-> 0]

UnchangedButReqJobs == UNCHANGED <<nextId, clock, sec, ledger, episodes, series, ser, aux, caches, engagement, feed, del, keys>>
UnchangedButReq == UNCHANGED <<jobs, nextId, clock, sec, ledger, episodes, series, ser, aux, caches, engagement, feed, del, keys>>

\* ANTHROPIC_API_KEY and ELEVEN_API_KEY: set or empty
Configurations == [anthropic : BOOLEAN, eleven : BOOLEAN]
Configured == [anthropic |-> TRUE, eleven |-> TRUE]

\* submissions are interchangeable: they are taken in index order
Active ==
    Cardinality({q \in Reqs : req[q].pc \notin {"idle", "end", "refused"}})
    + Cardinality({q \in SeriesIdx : ser[q].pc \notin {"idle", "end", "refused"}})

\* return jsonify({"success": False, "error": "... API key not configured"})
refused(r) ==
    /\ req' = [req EXCEPT ![r].pc = "refused"]
    /\ UnchangedButReq

NextIdle(r) ==
    /\ req[r].pc = "idle"
    /\ \A q \in Reqs : q < r => req[q].pc # "idle"
    /\ Active < MaxActive

api_generate_capped(r, is_trailer) ==
    /\ productions_this_week(ledger, sec) < WeeklyCap
    /\ NextIdle(r)
    /\ IF ~keys.eleven
       THEN refused(r)
       ELSE /\ nextId' = nextId + 1
            /\ clock' = clock + 1
            /\ req' = [req EXCEPT ![r].pc = "create", ![r].kind = "generate",
                                  ![r].trailer = is_trailer,
                                  ![r].job = new_job(nextId + 1, "generate", clock + 1, 0, 0)]
            /\ UNCHANGED <<jobs, sec, ledger, episodes, series, ser, aux, caches, engagement, feed, del, keys>>

\* api_generate up to the lock of create_job: without the speech-service
\* key the request is answered with the error; else it is accepted, the id
\* is drawn and the job dict is built with created_at = now
api_generate(r, is_trailer) ==
    /\ NextIdle(r)
    /\ IF ~keys.eleven
       THEN refused(r)
       ELSE /\ nextId' = nextId + 1
            /\ clock' = clock + 1
            /\ req' = [req EXCEPT ![r].pc = "create", ![r].kind = "generate",
                                  ![r].trailer = is_trailer,
                                  ![r].job = new_job(nextId + 1, "generate", clock + 1, 0, 0)]
            /\ UNCHANGED <<jobs, sec, ledger, episodes, series, ser, aux, caches, engagement, feed, del, keys>>

\* api_chat up to the lock of create_job: both keys are checked first
api_chat(r) ==
    /\ NextIdle(r)
    /\ IF ~keys.anthropic \/ ~keys.eleven
       THEN refused(r)
       ELSE /\ nextId' = nextId + 1
            /\ clock' = clock + 1
            /\ req' = [req EXCEPT ![r].pc = "create", ![r].kind = "chat",
                                  ![r].job = new_job(nextId + 1, "chat", clock + 1, 0, 0)]
            /\ UNCHANGED <<jobs, sec, ledger, episodes, series, ser, aux, caches, engagement, feed, del, keys>>

\* create_job under the lock, then the handler starts the worker thread
create_job(r) ==
    /\ req[r].pc = "create"
    /\ jobs' = insert_job(jobs, req[r].job)
    /\ req' = [req EXCEPT ![r].pc = IF req[r].kind = "chat" THEN "c_running" ELSE "g_running"]
    /\ UnchangedButReqJobs

\* what the two resolve_voice calls of a worker can do: both return, or the
\* catalog request of the first or of the second raises
VoiceRuns ==
    [a : VoiceOutcomes, b : VoiceOutcomes \cup {"raise"}] \cup {[a |-> "raise", b |-> "unset"]}

Unresolved(v) == v.a = "None" \/ v.b = "None"
VoiceRaised(v) == v.a = "raise" \/ v.b = "raise"

\* a faulty handler that records the error but not the status; C2 fails with it
on_exception_keeps_status(js, id) == update_job(js, id, [error |-> Raised])

\* except Exception as e: update_job(job_id, status="error", error=str(e))
on_exception(js, id) == update_job(js, id, [status |-> "error", error |-> Raised])

\* ------------------------------------------------------------ _run_generate

g_running(r) ==
    /\ req[r].pc = "g_running"
    /\ jobs' = update_job(jobs, req[r].job.id, [status |-> "running", progress |-> "Connecting"])
    /\ req' = [req EXCEPT ![r].pc = "g_voices"]
    /\ UnchangedButReqJobs

\* a faulty voice check without its `return`; C1 fails with it
g_after_voices_no_return(rq, v) ==
    IF VoiceRaised(v) THEN "end"
    ELSE IF rq.trailer THEN "g_audio_progress" ELSE "g_script"

\* a faulty branch that synthesizes a script for a trailer too; C10 fails with it
g_after_voices_always_script(rq, v) ==
    IF VoiceRaised(v) \/ Unresolved(v) THEN "end" ELSE "g_script"

\* the position after `if not voice_a_id or not voice_b_id: ...; return` and
\* the update_job of the branch taken
g_after_voices(rq, v) ==
    IF VoiceRaised(v) \/ Unresolved(v) THEN "end"
    ELSE IF rq.trailer THEN "g_audio_progress" ELSE "g_script"

\* a faulty voice check that reports an unresolved voice like an exception;
\* C9 fails with it
g_voices_update_generic(js, rq, v) ==
    IF VoiceRaised(v) \/ Unresolved(v) THEN on_exception(js, rq.job.id)
    ELSE IF rq.trailer THEN update_job(js, rq.job.id, [progress |-> "Building trailer"])
    ELSE update_job(js, rq.job.id, [progress |-> "Writing script"])

g_voices_update(js, rq, v) ==
    IF VoiceRaised(v) THEN on_exception(js, rq.job.id)
    ELSE IF Unresolved(v)
    THEN update_job(js, rq.job.id, [status |-> "error", error |-> VoiceNotFound])
    ELSE IF rq.trailer THEN update_job(js, rq.job.id, [progress |-> "Building trailer"])
    ELSE update_job(js, rq.job.id, [progress |-> "Writing script"])

\* resolve both voices, then report: the error, or the next phase
\* (build_trailer_script is local to the worker)
g_voices(r) ==
    /\ req[r].pc = "g_voices"
    /\ \E v \in VoiceRuns :
          /\ jobs' = g_voices_update(jobs, req[r], v)
          /\ req' = [req EXCEPT ![r].pc = g_after_voices(req[r], v),
                                ![r].va = v.a, ![r].vb = v.b]
    /\ UnchangedButReqJobs

\* generate_grounded_script, then log_production up to get_production_log()
g_script(r) ==
    /\ req[r].pc = "g_script"
    /\ \E ws \in ScriptPayloads, ns \in ScriptPayloads :
          LET out == generate_grounded_script(ws, ns)
          IN req' = [req EXCEPT ![r].pc = "g_log_write",
                                ![r].nScript = @ + 1, ![r].nGen = @ + out.calls,
                                ![r].log = ledger]
    /\ UnchangedButReq

\* log_production: append to the list read and write it
g_log_write(r) ==
    /\ req[r].pc = "g_log_write"
    /\ ledger' = Append(req[r].log, isoformat(sec))
    /\ req' = [req EXCEPT ![r].pc = "g_audio_progress", ![r].nLedger = @ + 1, ![r].log = <<>>]
    /\ UNCHANGED <<jobs, nextId, clock, sec, episodes, series, ser, aux, caches, engagement, feed, del, keys>>

\* update_job(progress), then the timestamp of the episode id is read
g_audio_progress(r) ==
    /\ req[r].pc = "g_audio_progress"
    /\ jobs' = update_job(jobs, req[r].job.id, [progress |-> "Generating audio"])
    /\ req' = [req EXCEPT ![r].pc = "g_audio",
                 ![r].entry = <<episode_entry(IF req[r].trailer THEN "briefing-trailer"
                                              ELSE "briefing-episode",
                                              sec, req[r].trailer, 0, 0)>>]
    /\ UnchangedButReqJobs

\* a faulty worker that writes the Episode record although the audio
\* synthesis raised; C8 fails with it
g_audio_saves_anyway(r) ==
    /\ req[r].pc = "g_audio"
    /\ \/ /\ req' = [req EXCEPT ![r].pc = "g_save_write", ![r].nAudio = @ + 1,
                                ![r].eps = episodes]
          /\ jobs' = jobs
       \/ /\ req' = [req EXCEPT ![r].pc = "g_save_write", ![r].nAudio = @ + 1,
                                ![r].eps = episodes]
          /\ jobs' = on_exception(jobs, req[r].job.id)
    /\ UnchangedButReqJobs

\* generate_episode_audio and the copy; if they raise, the handler reports
\* the error, else save_episode starts with load_episodes()
g_audio(r) ==
    /\ req[r].pc = "g_audio"
    /\ \/ /\ req' = [req EXCEPT ![r].pc = "g_save_write", ![r].nAudio = @ + 1,
                                ![r].eps = episodes]
          /\ jobs' = jobs
       \/ /\ req' = [req EXCEPT ![r].pc = "end", ![r].nAudio = @ + 1]
          /\ jobs' = on_exception(jobs, req[r].job.id)
    /\ UnchangedButReqJobs

\* a faulty save_episode without the try around build_feed: a failure of the
\* rebuild reaches the worker's handler; C27 fails with it
g_save_write_feed_fatal(r) ==
    /\ req[r].pc = "g_save_write"
    /\ episodes' = req[r].eps \o req[r].entry
    /\ feed' = build_feed(episodes', feed)
    /\ IF feed.faulty
       THEN /\ req' = [req EXCEPT ![r].pc = "end", ![r].nEpisode = @ + 1, ![r].eps = <<>>]
            /\ jobs' = on_exception(jobs, req[r].job.id)
       ELSE /\ req' = [req EXCEPT ![r].pc = "g_done", ![r].nEpisode = @ + 1, ![r].eps = <<>>]
            /\ jobs' = jobs
    /\ UNCHANGED <<nextId, clock, sec, ledger, series, ser, aux, caches, engagement, del, keys>>

\* save_episode: append to the list read, write it and rebuild the feed (a
\* failure of build_feed is caught inside save_episode)
g_save_write(r) ==
    /\ req[r].pc = "g_save_write"
    /\ episodes' = req[r].eps \o req[r].entry
    /\ feed' = build_feed(episodes', feed)
    /\ req' = [req EXCEPT ![r].pc = "g_done", ![r].nEpisode = @ + 1, ![r].eps = <<>>]
    /\ UNCHANGED <<jobs, nextId, clock, sec, ledger, series, ser, aux, caches, engagement, del, keys>>

g_done(r) ==
    /\ req[r].pc = "g_done"
    /\ jobs' = update_job(jobs, req[r].job.id,
                 [status |-> "done", progress |-> "Complete", result |-> req[r].entry])
    /\ req' = [req EXCEPT ![r].pc = "end"]
    /\ UnchangedButReqJobs

run_generate(r) ==
    \/ g_running(r) \/ g_voices(r) \/ g_script(r) \/ g_log_write(r)
    \/ g_audio_progress(r) \/ g_audio(r) \/ g_save_write(r) \/ g_done(r)

\* ---------------------------------------------------------------- _run_chat

c_running(r) ==
    /\ req[r].pc = "c_running"
    /\ jobs' = update_job(jobs, req[r].job.id, [status |-> "running", progress |-> "Generating topic"])
    /\ req' = [req EXCEPT ![r].pc = "c_topic"]
    /\ UnchangedButReqJobs

\* chat_to_topic: one call of the generation service; a call error or an
\* unparsable payload raises.  Then update_job(progress) or the handler.
c_topic(r) ==
    /\ req[r].pc = "c_topic"
    /\ \E out \in CallOutcomes :
          /\ req' = [req EXCEPT ![r].pc = IF out = "ok" THEN "c_script" ELSE "end",
                                ![r].nGen = @ + 1]
          /\ jobs' = IF out = "ok"
                     THEN update_job(jobs, req[r].job.id, [progress |-> "Writing script"])
                     ELSE on_exception(jobs, req[r].job.id)
    /\ UnchangedButReqJobs

\* generate_grounded_script, then update_job(progress)
c_script(r) ==
    /\ req[r].pc = "c_script"
    /\ \E ws \in ScriptPayloads, ns \in ScriptPayloads :
          LET out == generate_grounded_script(ws, ns)
          IN req' = [req EXCEPT ![r].pc = "c_voices",
                                ![r].nScript = @ + 1, ![r].nGen = @ + out.calls]
    /\ jobs' = update_job(jobs, req[r].job.id, [progress |-> "Generating audio"])
    /\ UnchangedButReqJobs

\* resolve both voices; unresolved or raised: report the error.  Else read
\* the timestamp, synthesize the audio (which may raise), copy it, and start
\* log_production with get_production_log()
c_voices(r) ==
    /\ req[r].pc = "c_voices"
    /\ \E v \in VoiceRuns :
          \/ /\ VoiceRaised(v)
             /\ jobs' = on_exception(jobs, req[r].job.id)
             /\ req' = [req EXCEPT ![r].pc = "end", ![r].va = v.a, ![r].vb = v.b]
          \/ /\ ~VoiceRaised(v) /\ Unresolved(v)
             /\ jobs' = update_job(jobs, req[r].job.id, [status |-> "error", error |-> VoiceNotFound])
             /\ req' = [req EXCEPT ![r].pc = "end", ![r].va = v.a, ![r].vb = v.b]
          \/ /\ ~VoiceRaised(v) /\ ~Unresolved(v)
             /\ jobs' = on_exception(jobs, req[r].job.id)
             /\ req' = [req EXCEPT ![r].pc = "end", ![r].va = v.a, ![r].vb = v.b,
                                   ![r].nAudio = @ + 1]
          \/ /\ ~VoiceRaised(v) /\ ~Unresolved(v)
             /\ jobs' = jobs
             /\ req' = [req EXCEPT ![r].pc = "c_log_write", ![r].va = v.a, ![r].vb = v.b,
                                   ![r].nAudio = @ + 1, ![r].log = ledger,
                                   ![r].entry = <<episode_entry("briefing-chat", sec, FALSE, 0, 0)>>]
    /\ UnchangedButReqJobs

\* log_production writes; the entry is built and save_episode starts with
\* load_episodes()
c_log_write(r) ==
    /\ req[r].pc = "c_log_write"
    /\ ledger' = Append(req[r].log, isoformat(sec))
    /\ req' = [req EXCEPT ![r].pc = "c_save_load", ![r].nLedger = @ + 1, ![r].log = <<>>]
    /\ UNCHANGED <<jobs, nextId, clock, sec, episodes, series, ser, aux, caches, engagement, feed, del, keys>>

c_save_load(r) ==
    /\ req[r].pc = "c_save_load"
    /\ req' = [req EXCEPT ![r].pc = "c_save_write", ![r].eps = episodes]
    /\ UnchangedButReq

c_save_write(r) ==
    /\ req[r].pc = "c_save_write"
    /\ episodes' = req[r].eps \o req[r].entry
    /\ feed' = build_feed(episodes', feed)
    /\ req' = [req EXCEPT ![r].pc = "c_done", ![r].nEpisode = @ + 1, ![r].eps = <<>>]
    /\ UNCHANGED <<jobs, nextId, clock, sec, ledger, series, ser, aux, caches, engagement, del, keys>>

c_done(r) ==
    /\ req[r].pc = "c_done"
    /\ jobs' = update_job(jobs, req[r].job.id,
                 [status |-> "done", progress |-> "Complete", result |-> req[r].entry])
    /\ req' = [req EXCEPT ![r].pc = "end"]
    /\ UnchangedButReqJobs

run_chat(r) ==
    \/ c_running(r) \/ c_topic(r) \/ c_script(r) \/ c_voices(r)
    \/ c_log_write(r) \/ c_save_load(r) \/ c_save_write(r) \/ c_done(r)

\* ------------------------------------------------------------- series.json

\* the record api_series_create appends
new_series(id, num_episodes) ==
    [id |-> id, num_episodes |-> num_episodes, status |-> "queued",
     episodes |-> <<>>, job_ids |-> <<>>, total |-> num_episodes,
     completed |-> 0, error |-> NoError]

\* next((x for x in series_list if x["id"] == series_id), None): the index of
\* the first record with the id, 0 for None
find_series(list, id) ==
    IF \E k \in 1..Len(list) : list[k].id = id
    THEN CHOOSE k \in 1..Len(list) :
            list[k].id = id /\ \A m \in 1..(k - 1) : list[m].id # id
    ELSE 0

\* assignments to the record found, in the list that was loaded
set_series(list, id, kw) ==
    [list EXCEPT ![find_series(list, id)] = merge(@, kw)]

\* the outline: a list of topic objects, here their episode numbers
outline(n) == [k \in 1..n |-> k]

\* ------------------------------------------------------ series submissions

\* a series submission: the handler's and the coordinator's position and
\* locals.  out lists, per episode attempted, how its production ended, and
\* term whether the update_job that reported it found the job stored; exc is
\* what raised into the handler of _run_create_series, nLedger counts the
\* ledger writes of the coordinator.
IdleSer ==
    [pc |-> "idle", id |-> 0, num |-> 0, n |-> 0, i |-> 0, list |-> <<>>,
     job_ids |-> <<>>, entry_job_ids |-> <<>>, job |-> NoJob,
     entry |-> <<>>, eps |-> <<>>, log |-> <<>>, out |-> <<>>, term |-> <<>>,
     exc |-> "none", nLedger |-> 0]

UnchangedButSer == UNCHANGED <<jobs, nextId, clock, sec, req, ledger, episodes, series, aux, caches, engagement, feed, del, keys>>
UnchangedButSerJobs == UNCHANGED <<nextId, clock, sec, req, ledger, episodes, series, aux, caches, engagement, feed, del, keys>>
UnchangedButSerFile == UNCHANGED <<jobs, nextId, clock, sec, req, ledger, episodes, aux, caches, engagement, feed, del, keys>>

NextIdleSer(s) ==
    /\ ser[s].pc = "idle"
    /\ \A q \in SeriesIdx : q < s => ser[q].pc # "idle"
    /\ Active < MaxActive

\* api_series_create up to load_series(): without either key the request is
\* answered with the error; else it is accepted, the id is drawn, the list
\* is read
api_series_create(s, num_episodes) ==
    /\ NextIdleSer(s)
    /\ IF ~keys.anthropic \/ ~keys.eleven
       THEN /\ ser' = [ser EXCEPT ![s].pc = "refused"]
            /\ UnchangedButSer
       ELSE /\ nextId' = nextId + 1
            /\ ser' = [ser EXCEPT ![s].pc = "sc_save", ![s].id = nextId + 1,
                                  ![s].num = num_episodes, ![s].list = series]
            /\ UNCHANGED <<jobs, clock, sec, req, ledger, episodes, series, aux, caches, engagement, feed, del, keys>>

\* series_list.append(series_entry); save_series(series_list); the thread starts
sc_save(s) ==
    /\ ser[s].pc = "sc_save"
    /\ series' = Append(ser[s].list, new_series(ser[s].id, ser[s].num))
    /\ ser' = [ser EXCEPT ![s].pc = "cs_load1", ![s].list = <<>>]
    /\ UnchangedButSerFile

\* ------------------------------------------------------ _run_create_series

\* load_series(); `if not s: return`
cs_load1(s) ==
    /\ ser[s].pc = "cs_load1"
    /\ ser' = [ser EXCEPT ![s].pc = IF find_series(series, ser[s].id) = 0 THEN "end" ELSE "cs_save1",
                          ![s].list = IF find_series(series, ser[s].id) = 0 THEN <<>> ELSE series]
    /\ UnchangedButSer

\* s["status"] = "outlining"; save_series(series_list)
cs_save1(s) ==
    /\ ser[s].pc = "cs_save1"
    /\ series' = set_series(ser[s].list, ser[s].id, [status |-> "outlining"])
    /\ ser' = [ser EXCEPT ![s].pc = "cs_outline", ![s].list = <<>>]
    /\ UnchangedButSerFile

\* the job create_job builds for episode k of the outline
series_job(s, k) == new_job(nextId + 1, "series_ep", clock + 1, ser[s].id, outline(k)[k])

\* generate_series_outline: it raises (the handler then reads the list), or
\* returns n episodes; the first create_job draws its id and reads the
\* clock, or with no episode the list is read again
cs_outline(s, lens) ==
    /\ ser[s].pc = "cs_outline"
    /\ \/ /\ ser' = [ser EXCEPT ![s].pc = "cs_exc_save", ![s].list = series,
                                ![s].exc = "outline"]
          /\ UNCHANGED <<nextId, clock, aux, caches, engagement, feed, del, keys>>
       \/ /\ 0 \in lens
          /\ ser' = [ser EXCEPT ![s].pc = IF find_series(series, ser[s].id) = 0
                                          THEN "cs_exc_load" ELSE "cs_save2",
                                ![s].list = IF find_series(series, ser[s].id) = 0
                                            THEN <<>> ELSE series,
                                ![s].exc = IF find_series(series, ser[s].id) = 0
                                           THEN "record" ELSE "none"]
          /\ UNCHANGED <<nextId, clock, aux, caches, engagement, feed, del, keys>>
       \/ \E n \in lens \ {0} :
             /\ ser' = [ser EXCEPT ![s].pc = "cs_insert", ![s].n = n, ![s].job = series_job(s, 1)]
             /\ nextId' = nextId + 1
             /\ clock' = clock + 1
    /\ UNCHANGED <<jobs, sec, req, ledger, episodes, series, aux, caches, engagement, feed, del, keys>>

\* create_job under the lock; job_ids.append(jid); the next create_job draws
\* its id and reads the clock, or the loop is over
cs_insert(s) ==
    /\ ser[s].pc = "cs_insert"
    /\ jobs' = insert_job(jobs, ser[s].job)
    /\ IF Len(ser[s].job_ids) + 1 < ser[s].n
       THEN /\ ser' = [ser EXCEPT ![s].job_ids = Append(@, ser[s].job.id),
                                  ![s].job = series_job(s, Len(ser[s].job_ids) + 2)]
            /\ nextId' = nextId + 1
            /\ clock' = clock + 1
       ELSE /\ ser' = [ser EXCEPT ![s].pc = "cs_load2", ![s].job = NoJob,
                                  ![s].job_ids = Append(@, ser[s].job.id)]
            /\ UNCHANGED <<nextId, clock, aux, caches, engagement, feed, del, keys>>
    /\ UNCHANGED <<sec, req, ledger, episodes, series, aux, caches, engagement, feed, del, keys>>

\* load_series(); s is used without a test: None raises
cs_load2(s) ==
    /\ ser[s].pc = "cs_load2"
    /\ ser' = [ser EXCEPT ![s].pc = IF find_series(series, ser[s].id) = 0
                                    THEN "cs_exc_load" ELSE "cs_save2",
                          ![s].list = IF find_series(series, ser[s].id) = 0 THEN <<>> ELSE series,
                          ![s].exc = IF find_series(series, ser[s].id) = 0
                                     THEN "record" ELSE "none"]
    /\ UnchangedButSer

\* episodes, job_ids, status, total, completed; save_series(series_list)
cs_save2(s) ==
    /\ ser[s].pc = "cs_save2"
    /\ series' = set_series(ser[s].list, ser[s].id,
                    [episodes |-> outline(ser[s].n), job_ids |-> ser[s].job_ids,
                     status |-> "producing", total |-> ser[s].n, completed |-> 0])
    /\ ser' = [ser EXCEPT ![s].pc = "rs_load", ![s].list = <<>>]
    /\ UnchangedButSerFile

\* after _run_series: load_series(); `if s:`
cs_load3(s) ==
    /\ ser[s].pc = "cs_load3"
    /\ ser' = [ser EXCEPT ![s].pc = IF find_series(series, ser[s].id) = 0 THEN "end" ELSE "cs_save3",
                          ![s].list = IF find_series(series, ser[s].id) = 0 THEN <<>> ELSE series]
    /\ UnchangedButSer

\* s["status"] = "done"; save_series(series_list)
cs_save3(s) ==
    /\ ser[s].pc = "cs_save3"
    /\ series' = set_series(ser[s].list, ser[s].id, [status |-> "done"])
    /\ ser' = [ser EXCEPT ![s].pc = "end", ![s].list = <<>>]
    /\ UnchangedButSerFile

\* except Exception: load_series(), one step when the failure itself was a
\* read of the list; then `if s:` status = "error", error = str(e);
\* save_series(series_list)
cs_except(s) ==
    /\ ser[s].pc \in {"cs_exc_load", "cs_exc_save"}
    /\ IF ser[s].pc = "cs_exc_load"
       THEN /\ ser' = [ser EXCEPT ![s].pc = "cs_exc_save", ![s].list = series]
            /\ series' = series
       ELSE /\ series' = IF find_series(ser[s].list, ser[s].id) = 0 THEN series
                         ELSE set_series(ser[s].list, ser[s].id,
                                         [status |-> "error", error |-> Raised])
            /\ ser' = [ser EXCEPT ![s].pc = "end", ![s].list = <<>>]
    /\ UnchangedButSerFile

\* -------------------------------------------------------------- _run_series

\* a faulty loop that stops after one episode; C3 fails with it
after_episode_break(sr) == "cs_load3"

\* where the loop goes after episode i
after_episode(sr) == IF sr.i < sr.n THEN "rs_running" ELSE "cs_load3"

\* load_series(); `if not series_entry: return`; the loop starts
rs_load(s) ==
    /\ ser[s].pc = "rs_load"
    /\ LET k == find_series(series, ser[s].id)
       IN ser' = [ser EXCEPT ![s].pc = IF k = 0 \/ ser[s].n = 0 THEN "cs_load3" ELSE "rs_running",
                             ![s].entry_job_ids = IF k = 0 THEN <<>> ELSE series[k].job_ids,
                             ![s].i = IF k = 0 \/ ser[s].n = 0 THEN 0 ELSE 1]
    /\ UnchangedButSer

\* job_id = series_entry["job_ids"][i], outside the try: an IndexError leaves
\* _run_series and the handler of _run_create_series reads the list.
\* Else update_job(job_id, status="running")
rs_running(s) ==
    /\ ser[s].pc = "rs_running"
    /\ IF Len(ser[s].entry_job_ids) < ser[s].i
       THEN /\ ser' = [ser EXCEPT ![s].pc = "cs_exc_save", ![s].list = series,
                                  ![s].exc = "index"]
            /\ jobs' = jobs
       ELSE /\ ser' = [ser EXCEPT ![s].pc = "rs_script"]
            /\ jobs' = update_job(jobs, ser[s].entry_job_ids[ser[s].i],
                          [status |-> "running", progress |-> "Writing script"])
    /\ UnchangedButSerJobs

\* generate_grounded_script, then log_production up to get_production_log()
rs_script(s) ==
    /\ ser[s].pc = "rs_script"
    /\ ser' = [ser EXCEPT ![s].pc = "rs_log_write", ![s].log = ledger]
    /\ UnchangedButSer

rs_log_write(s) ==
    /\ ser[s].pc = "rs_log_write"
    /\ ledger' = Append(ser[s].log, isoformat(sec))
    /\ ser' = [ser EXCEPT ![s].pc = "rs_audio_progress", ![s].log = <<>>,
                          ![s].nLedger = @ + 1]
    /\ UNCHANGED <<jobs, nextId, clock, sec, req, episodes, series, aux, caches, engagement, feed, del, keys>>

rs_audio_progress(s) ==
    /\ ser[s].pc = "rs_audio_progress"
    /\ jobs' = update_job(jobs, ser[s].entry_job_ids[ser[s].i], [progress |-> "Generating audio"])
    /\ ser' = [ser EXCEPT ![s].pc = "rs_voices"]
    /\ UnchangedButSerJobs

\* resolve both voices: raised -> the episode's handler; unresolved ->
\* update_job(error) and continue; else the timestamp, the audio (which may
\* raise) and the copy, and save_episode starts with load_episodes()
rs_voices(s) ==
    /\ ser[s].pc = "rs_voices"
    /\ \E v \in VoiceRuns :
          \/ /\ VoiceRaised(v)
             /\ jobs' = on_exception(jobs, ser[s].entry_job_ids[ser[s].i])
             /\ ser' = [ser EXCEPT ![s].pc = after_episode(ser[s]), ![s].i = @ + 1,
                                   ![s].out = Append(@, "raised"),
                                   ![s].term = Append(@, ser[s].entry_job_ids[ser[s].i] \in DOMAIN jobs)]
          \/ /\ ~VoiceRaised(v) /\ Unresolved(v)
             /\ jobs' = update_job(jobs, ser[s].entry_job_ids[ser[s].i],
                           [status |-> "error", error |-> VoiceNotFound])
             /\ ser' = [ser EXCEPT ![s].pc = after_episode(ser[s]), ![s].i = @ + 1,
                                   ![s].out = Append(@, "unresolved"),
                                   ![s].term = Append(@, ser[s].entry_job_ids[ser[s].i] \in DOMAIN jobs)]
          \/ /\ ~VoiceRaised(v) /\ ~Unresolved(v)
             /\ jobs' = on_exception(jobs, ser[s].entry_job_ids[ser[s].i])
             /\ ser' = [ser EXCEPT ![s].pc = after_episode(ser[s]), ![s].i = @ + 1,
                                   ![s].out = Append(@, "raised"),
                                   ![s].term = Append(@, ser[s].entry_job_ids[ser[s].i] \in DOMAIN jobs)]
          \/ /\ ~VoiceRaised(v) /\ ~Unresolved(v)
             /\ jobs' = jobs
             /\ ser' = [ser EXCEPT ![s].pc = "rs_save_write", ![s].eps = episodes,
                          ![s].entry = <<episode_entry("series", sec, FALSE, ser[s].id, ser[s].i)>>]
    /\ UnchangedButSerJobs

rs_save_write(s) ==
    /\ ser[s].pc = "rs_save_write"
    /\ episodes' = ser[s].eps \o ser[s].entry
    /\ feed' = build_feed(episodes', feed)
    /\ ser' = [ser EXCEPT ![s].pc = "rs_done", ![s].eps = <<>>]
    /\ UNCHANGED <<jobs, nextId, clock, sec, req, ledger, series, aux, caches, engagement, del, keys>>

rs_done(s) ==
    /\ ser[s].pc = "rs_done"
    /\ jobs' = update_job(jobs, ser[s].entry_job_ids[ser[s].i],
                 [status |-> "done", progress |-> "Episode complete", result |-> ser[s].entry])
    /\ ser' = [ser EXCEPT ![s].pc = "rs_cnt_load", ![s].entry = <<>>,
                          ![s].out = Append(@, "done"),
                          ![s].term = Append(@, ser[s].entry_job_ids[ser[s].i] \in DOMAIN jobs)]
    /\ UnchangedButSerJobs

\* load_series(); `if s:`
rs_cnt_load(s) ==
    /\ ser[s].pc = "rs_cnt_load"
    /\ IF find_series(series, ser[s].id) = 0
       THEN ser' = [ser EXCEPT ![s].pc = after_episode(ser[s]), ![s].i = @ + 1]
       ELSE ser' = [ser EXCEPT ![s].pc = "rs_cnt_save", ![s].list = series]
    /\ UnchangedButSer

\* s["completed"] = s.get("completed", 0) + 1; save_series(series_list)
rs_cnt_save(s) ==
    /\ ser[s].pc = "rs_cnt_save"
    /\ series' = set_series(ser[s].list, ser[s].id,
                    [completed |-> ser[s].list[find_series(ser[s].list, ser[s].id)].completed + 1])
    /\ ser' = [ser EXCEPT ![s].pc = after_episode(ser[s]), ![s].i = @ + 1, ![s].list = <<>>]
    /\ UnchangedButSerFile

run_series(s) ==
    \/ rs_load(s) \/ rs_running(s) \/ rs_script(s) \/ rs_log_write(s)
    \/ rs_audio_progress(s) \/ rs_voices(s) \/ rs_save_write(s) \/ rs_done(s)
    \/ rs_cnt_load(s) \/ rs_cnt_save(s)

run_create_series(s, lens) ==
    \/ cs_load1(s) \/ cs_save1(s) \/ cs_outline(s, lens) \/ cs_insert(s) \/ cs_load2(s)
    \/ cs_save2(s) \/ run_series(s) \/ cs_load3(s) \/ cs_save3(s)
    \/ cs_except(s)

\* ------------------------------------------------------- api_episode_delete

\* an id no Episode record has
NoEpisode == <<"none", 0, 0, 0>>

\* the delete requests: the handler's position and locals, the answer of the
\* last request, the number of requests answered and the ids whose deletion
\* has been requested and found
IdleDel ==
    [pc |-> "idle", ep_id |-> NoEpisode, eps |-> << >>, answer |-> "none", n |-> 0,
     targets |-> {}]

UnchangedButDel ==
    UNCHANGED <<jobs, nextId, clock, sec, req, ledger, episodes, series, ser, aux, caches, engagement, feed, keys>>

\* the ids in a list of Episode records
ids_of(eps) == {eps[i].id : i \in 1..Len(eps)}

\* [e for e in eps if e.get("id") != ep_id]
without(eps, ep_id) == SelectSeq(eps, LAMBDA e : e.id # ep_id)

\* load_episodes() and the search for the target: 404 if no record has the id
ed_load(ep_id) ==
    /\ del.pc = "idle"
    /\ del.n < MaxDeletes
    /\ IF ep_id \notin ids_of(episodes)
       THEN del' = [del EXCEPT !.answer = "not_found", !.ep_id = ep_id, !.n = @ + 1]
       ELSE del' = [del EXCEPT !.pc = "ed_write", !.ep_id = ep_id, !.eps = episodes,
                               !.targets = @ \cup {ep_id}]
    /\ UnchangedButDel

\* the write of the filtered list, then the rebuild of the feed, whose
\* failure is caught, and the answer
ed_write ==
    /\ del.pc = "ed_write"
    /\ episodes' = without(del.eps, del.ep_id)
    /\ feed' = build_feed(episodes', feed)
    /\ del' = [del EXCEPT !.pc = "idle", !.answer = "deleted", !.eps = << >>, !.n = @ + 1]
    /\ UNCHANGED <<jobs, nextId, clock, sec, req, ledger, series, ser, aux, caches, engagement, keys>>

\* a delete request for the id of a stored record or for an id no record has
api_episode_delete ==
    \/ \E ep_id \in ids_of(episodes) \cup {NoEpisode} : ed_load(ep_id)
    \/ ed_write

\* --------------------------------------------------- functions under study

\* no function is under study
NoCall == <<>>

\* what a step that studies a function leaves alone
UnchangedButAux ==
    UNCHANGED <<jobs, nextId, clock, sec, req, ledger, episodes, series, ser, caches, engagement, feed, del, keys>>

\* ------------------------------------------- topic and suggestion caches

\* who calls get_topics_for_today: api_topics and api_cron_morning_prep
TopicCallers == {"api", "cron"}

\* a cache file that does not exist.  A file that exists holds the date it was
\* tagged with and its content, and has a modification time; w numbers the
\* writes of the two files in the order they happened (not stored).
NoFile == [date |-> -1, content |-> 0, mtime |-> 0, w |-> 0]

\* FALLBACK_TOPICS; a generated topic list is named by the number of the
\* generation that produced it
FALLBACK_TOPICS == 0

\* a caller of get_topics_for_today that is not inside the call
IdleTopics == [pc |-> "idle", today |-> 0, ret |-> -1, how |-> "none"]

\* no suggestions request is being handled
IdleSuggest ==
    [pc |-> "idle", today |-> 0, force |-> FALSE, cached |-> NoFile, topics_mtime |-> 0,
     tw0 |-> 0, answer |-> "none", suggestions |-> -1]

\* first start: no cache file, nobody has asked
ColdCaches ==
    [today |-> 0, now |-> 0, topics_cache |-> NoFile, suggestions_cache |-> NoFile,
     nWrites |-> 0, nTopicGen |-> 0, lastDay |-> -1,
     gt |-> [c \in TopicCallers |-> IdleTopics],
     ds |-> IdleSuggest,
     cron |-> [pc |-> "idle", today |-> 0]]

UnchangedButCaches ==
    UNCHANGED <<jobs, nextId, clock, sec, req, ledger, episodes, series, ser, aux, engagement, feed, del, keys>>

\* write_text(json.dumps({"date": today, ...})): the file as it is afterwards
file_written(today, content) ==
    [date |-> today, content |-> content, mtime |-> caches.now + 1, w |-> caches.nWrites + 1]

\* the file system's clock moves to its next granule
Elapse ==
    /\ caches.now < MaxNow
    /\ caches' = [caches EXCEPT !.now = @ + 1]
    /\ UnchangedButCaches

\* the local calendar date changes (and the clock has moved)
Midnight ==
    /\ caches.today < MaxDay
    /\ caches.now < MaxNow
    /\ caches' = [caches EXCEPT !.today = @ + 1, !.now = @ + 1]
    /\ UnchangedButCaches

cache_hit_any_date(c, today) == c # NoFile

\* get_topics_for_today: the cache exists and is tagged with today's date
cache_hit(c, today) == c # NoFile /\ c.date = today

\* where a caller of get_topics_for_today continues after the call
AfterTopics(c) == IF c = "api" THEN "idle" ELSE "suggest"

MayCallTopics(c) ==
    IF c = "api" THEN caches.gt[c].pc = "idle"
    ELSE caches.gt[c].pc = "idle" /\ caches.cron.pc = "topics"

\* get_topics_for_today up to the read of the cache: return the cached topics
\* or go on to generate
gt_check(c) ==
    /\ MayCallTopics(c)
    /\ LET today == caches.today
           hit == cache_hit(caches.topics_cache, today)
       IN caches' = [caches EXCEPT
             !.gt[c] = [pc |-> IF hit THEN "idle" ELSE "miss",
                        today |-> today,
                        ret |-> IF hit THEN caches.topics_cache.content ELSE -1,
                        how |-> IF hit THEN "cached" ELSE "none"],
             !.lastDay = IF hit /\ c = "api" THEN today ELSE @,
             !.cron.pc = IF hit /\ c = "cron" THEN AfterTopics(c) ELSE @]
    /\ UnchangedButCaches

\* generate_topics_via_claude, then the write of the cache tagged with the
\* date read at the start of the call
gt_write(c) ==
    /\ caches.gt[c].pc = "miss"
    /\ caches.nWrites < MaxWrites
    /\ \E o \in CallOutcomes :
          LET n == caches.nTopicGen + 1
              topics == IF o = "ok" THEN n ELSE FALLBACK_TOPICS
          IN caches' = [caches EXCEPT
                !.nTopicGen = n,
                !.nWrites = @ + 1,
                !.topics_cache = file_written(caches.gt[c].today, topics),
                !.gt[c] = [@ EXCEPT !.pc = "idle", !.ret = topics, !.how = "generated"],
                !.lastDay = IF c = "api" THEN caches.gt[c].today ELSE @,
                !.cron.pc = IF c = "cron" THEN AfterTopics(c) ELSE @]
    /\ UnchangedButCaches

\* api_discover_suggestions up to the read of the suggestion cache
ds_read ==
    /\ caches.ds.pc = "idle"
    /\ \E force \in BOOLEAN :
          LET today == caches.today
              c == caches.suggestions_cache
              tagged == ~force /\ c # NoFile /\ c.date = today
          IN caches' = [caches EXCEPT
                !.ds = [pc |-> IF tagged THEN "stat_topics" ELSE "regenerate",
                        today |-> today, force |-> force,
                        cached |-> IF tagged THEN c ELSE NoFile,
                        topics_mtime |-> 0, tw0 |-> caches.topics_cache.w,
                        answer |-> "none", suggestions |-> -1]]
    /\ UnchangedButCaches

\* TOPICS_CACHE.stat().st_mtime if TOPICS_CACHE.exists() else 0
ds_stat_topics ==
    /\ caches.ds.pc = "stat_topics"
    /\ caches' = [caches EXCEPT !.ds.topics_mtime = caches.topics_cache.mtime,
                                !.ds.pc = "stat_suggestions"]
    /\ UnchangedButCaches

\* SUGGESTIONS_CACHE.stat().st_mtime and the comparison: answer from the
\* cache or regenerate
ds_stat_suggestions ==
    /\ caches.ds.pc = "stat_suggestions"
    /\ IF caches.suggestions_cache.mtime >= caches.ds.topics_mtime
       THEN caches' = [caches EXCEPT !.ds.pc = "idle", !.ds.answer = "cached",
                                     !.ds.suggestions = caches.ds.cached.content]
       ELSE caches' = [caches EXCEPT !.ds.pc = "regenerate"]
    /\ UnchangedButCaches

\* the rest of api_discover_suggestions: the prompt from the documents, the
\* two calls of the generation service, the write of the cache; a failure is
\* answered with status 500 and writes nothing
ds_regenerate ==
    /\ caches.ds.pc = "regenerate"
    /\ caches.nWrites < MaxWrites
    /\ \E o \in CallOutcomes :
          IF o = "ok"
          THEN caches' = [caches EXCEPT
                  !.nWrites = @ + 1,
                  !.suggestions_cache = file_written(caches.ds.today, caches.nWrites + 1),
                  !.ds.pc = "idle", !.ds.answer = "fresh",
                  !.ds.suggestions = caches.nWrites + 1]
          ELSE caches' = [caches EXCEPT !.ds.pc = "idle", !.ds.answer = "error"]
    /\ UnchangedButCaches

\* api_cron_morning_prep begins a run (forced, or the first of the date)
cron_start ==
    /\ caches.cron.pc = "idle"
    /\ caches' = [caches EXCEPT !.cron = [pc |-> "topics", today |-> caches.today]]
    /\ UnchangedButCaches

\* step 2 of api_cron_morning_prep: suggestions are generated and written
\* without a look at the cache; a failure is recorded in the results
cron_suggest ==
    /\ caches.cron.pc = "suggest"
    /\ caches.nWrites < MaxWrites
    /\ \E o \in CallOutcomes :
          IF o = "ok"
          THEN caches' = [caches EXCEPT
                  !.nWrites = @ + 1,
                  !.suggestions_cache = file_written(caches.cron.today, caches.nWrites + 1),
                  !.cron.pc = "idle"]
          ELSE caches' = [caches EXCEPT !.cron.pc = "idle"]
    /\ UnchangedButCaches

\* -------------------------------------------------------- engagement log

Titles == 1..NTitles

\* event["pct"] is absent
NoPct == -1

\* the percentages a play_pct event carries: none, 25, 75
Pcts == {NoPct, 25, 75}

\* the events a summarised log holds (the summary does not read ts)
Events ==
    [ts : {0}, event_type : {"preview_started", "dismissed", "listen_complete"},
     topic_title : Titles, pct : {NoPct}]
    \cup [ts : {0}, event_type : {"play_pct"}, topic_title : Titles, pct : Pcts]

Savers == 1..NSavers

\* _engagement_lock is not held
Free == 0

\* a thread that is not inside save_engagement_event
IdleSaver == [pc |-> "idle", event |-> <<>>, events |-> <<>>]

\* engagement_log.json absent, the lock free; saved lists the events in the
\* order their writes happened and n counts the calls (neither is stored)
FreshLog ==
    [log |-> <<>>, lock |-> Free, th |-> [t \in Savers |-> IdleSaver], saved |-> <<>>, n |-> 0]

Max(a, b) == IF a >= b THEN a ELSE b

\* seq[-n:]
LastN(seq, n) == SubSeq(seq, Max(1, Len(seq) - n + 1), Len(seq))

InSeq(x, seq) == \E i \in 1..Len(seq) : seq[i] = x

\* the default of topic_signals
NoSignals ==
    [previewed |-> FALSE, commissioned |-> FALSE, dismissed |-> FALSE,
     max_pct |-> 0, listen_complete |-> FALSE]

\* the loop of get_engagement_summary over one event: the signals of its
\* title, created at the first event of a known type for that title
signal_event(ts, e) ==
    LET t == e.topic_title
        et == e.event_type
        known == et \in {"preview_started", "commissioned", "dismissed", "play_pct",
                         "listen_complete"}
        s == ts.sig[t]
        pct == IF e.pct = NoPct THEN 0 ELSE e.pct
        s2 == CASE et = "preview_started" -> [s EXCEPT !.previewed = TRUE]
                [] et = "commissioned" -> [s EXCEPT !.commissioned = TRUE]
                [] et = "dismissed" -> [s EXCEPT !.dismissed = TRUE]
                [] et = "play_pct" -> [s EXCEPT !.max_pct = Max(@, pct)]
                [] et = "listen_complete" -> [s EXCEPT !.listen_complete = TRUE, !.max_pct = 100]
                [] OTHER -> s
    IN [order |-> IF known /\ ~InSeq(t, ts.order) THEN Append(ts.order, t) ELSE ts.order,
        sig |-> [ts.sig EXCEPT ![t] = s2]]

\* topic_signals after the loop: the titles in the order of their first event
\* and the signals of each
RECURSIVE topic_signals(_)
topic_signals(events) ==
    IF events = <<>> THEN [order |-> <<>>, sig |-> [t \in Titles |-> NoSignals]]
    ELSE signal_event(topic_signals(SubSeq(events, 1, Len(events) - 1)), events[Len(events)])

is_strong_above(s) == s.listen_complete \/ s.max_pct > 75

is_strong(s) == s.listen_complete \/ s.max_pct >= 75

\* the condition of moderate_interest; strong is the list before its cut
is_moderate(t, s, strong) ==
    ~s.dismissed /\ (s.previewed \/ s.max_pct >= 25) /\ ~InSeq(t, strong)

\* the cut of a bucket
keep_last(seq, n) == LastN(seq, n)

\* get_engagement_summary on a loaded log; {} for an empty log
summary(events) ==
    LET ts == topic_signals(events)
        strong_interest == SelectSeq(ts.order, LAMBDA t : is_strong(ts.sig[t]))
        moderate_interest ==
            SelectSeq(ts.order, LAMBDA t : is_moderate(t, ts.sig[t], strong_interest))
        dismissed == SelectSeq(ts.order, LAMBDA t : ts.sig[t].dismissed)
    IN IF events = <<>>
       THEN [empty |-> TRUE, strong_interest |-> <<>>, moderate_interest |-> <<>>,
             dismissed |-> <<>>]
       ELSE [empty |-> FALSE,
             strong_interest |-> keep_last(strong_interest, InterestCap),
             moderate_interest |-> keep_last(moderate_interest, InterestCap),
             dismissed |-> keep_last(dismissed, DismissedCap)]

UnchangedButEngagement ==
    UNCHANGED <<jobs, nextId, clock, sec, req, ledger, episodes, series, ser, aux, caches, feed, del, keys>>

\* save_engagement_event up to the lock: the event is built with the time of
\* the call
se_event(t) ==
    /\ engagement.th[t].pc = "idle"
    /\ engagement.n < MaxSaves
    /\ \E et \in {"preview_started", "dismissed"} :
          engagement' = [engagement EXCEPT
             !.n = @ + 1,
             !.th[t] = [pc |-> "acquire",
                        event |-> [ts |-> engagement.n + 1, event_type |-> et,
                                   topic_title |-> 1, pct |-> NoPct],
                        events |-> <<>>]]
    /\ UnchangedButEngagement

\* with _engagement_lock: events = load_engagement()
se_load(t) ==
    /\ engagement.th[t].pc = "acquire"
    /\ engagement.lock = Free
    /\ engagement' = [engagement EXCEPT
          !.lock = t,
          !.th[t].pc = "write",
          !.th[t].events = engagement.log]
    /\ UnchangedButEngagement

cap_events_none(events) == events

\* if len(events) > 2000: events = events[-2000:]
cap_events(events) == IF Len(events) > EventCap THEN LastN(events, EventCap) ELSE events

\* events.append(event), the cut, the write of the log; the lock is released
se_write(t) ==
    /\ engagement.th[t].pc = "write"
    /\ engagement' = [engagement EXCEPT
          !.log = cap_events(Append(engagement.th[t].events, engagement.th[t].event)),
          !.saved = Append(@, engagement.th[t].event),
          !.lock = Free,
          !.th[t] = IdleSaver]
    /\ UnchangedButEngagement

\* api_topics asks for the count of the week
week_count ==
    /\ aux.result = -1
    /\ aux' = [aux EXCEPT !.result = productions_this_week(ledger, aux.now)]
    /\ UnchangedButAux

\* api_engagement_summary: the log is loaded and summarised
get_engagement_summary ==
    /\ aux = NoCall
    /\ aux' = [fn |-> "summary", result |-> summary(engagement.log)]
    /\ UnchangedButAux


\* ----------------------------------------------------------- specifications

\* the documents of the production pipeline are absent and no request has
\* arrived
QuietFiles ==
    /\ jobs = << >>
    /\ nextId = 0
    /\ clock = 0
    /\ sec = 0
    /\ req = [r \in Reqs |-> IdleReq]
    /\ ledger = << >>
    /\ episodes = << >>
    /\ series = << >>
    /\ ser = [s \in SeriesIdx |-> IdleSer]
    /\ feed = NoFeed
    /\ del = IdleDel

\* no file, no request, and both credentials set
QuietPipeline == QuietFiles /\ keys = Configured

\* the data files are absent and no request has arrived
Quiet == QuietPipeline /\ caches = ColdCaches /\ engagement = FreshLog

Init == Quiet /\ aux = NoCall

\* the single-job path: generate and trailer submissions, their workers, and
\* the queue-clear request
Next ==
    \/ \E r \in Reqs : \E t \in BOOLEAN : api_generate(r, t)
    \/ \E r \in Reqs : create_job(r)
    \/ \E r \in Reqs : run_generate(r)
    \/ clear_queue
    \/ Tick

Spec == Init /\ [][Next]_vars

\* the outline lengths the generation service returns
OutlineLens == 0..MaxEpisodes

\* one series, its coordinator, and the queue-clear request
NextSeries ==
    \/ \E n \in 1..MaxEpisodes : api_series_create(1, n)
    \/ sc_save(1)
    \/ run_create_series(1, OutlineLens)
    \/ clear_queue
    \/ Tick

SpecSeries == Init /\ [][NextSeries]_vars

\* one series run alone
NextAlone ==
    \/ \E n \in 1..MaxEpisodes : api_series_create(1, n)
    \/ sc_save(1)
    \/ run_create_series(1, OutlineLens)
    \/ Tick

SpecAlone == Init /\ [][NextAlone]_vars

\* series submitted and coordinated concurrently, with one-episode outlines
NextRace ==
    \/ \E s \in SeriesIdx : \E n \in 1..MaxEpisodes : api_series_create(s, n)
    \/ \E s \in SeriesIdx : sc_save(s)
    \/ \E s \in SeriesIdx : run_create_series(s, {1})

SpecRace == Init /\ [][NextRace]_vars

\* every kind of worker, create_job and clear_queue: one single-job
\* submission of any kind beside one series
NextAll ==
    \/ \E t \in BOOLEAN : api_generate(1, t)
    \/ api_chat(1)
    \/ create_job(1)
    \/ run_generate(1)
    \/ run_chat(1)
    \/ \E n \in 1..MaxEpisodes : api_series_create(1, n)
    \/ sc_save(1)
    \/ run_create_series(1, OutlineLens)
    \/ clear_queue

SpecAll == Init /\ [][NextAll]_vars

\* ------------------------------------------------------------------- claims

\* C1 (checked under SpecAll).  In every step, a record that is stored before
\* and after keeps its status or moves it queued -> running or
\* running -> done or error; a status done or error never changes.
C1_StatusMonotonic ==
    [][\A k \in DOMAIN jobs \cap DOMAIN jobs' :
          \/ jobs'[k].status = jobs[k].status
          \/ jobs[k].status = "queued" /\ jobs'[k].status = "running"
          \/ jobs[k].status = "running" /\ jobs'[k].status \in {"done", "error"}]_vars

\* a single job and a series episode have both ended, one done and one error
C1_Witness ==
    \E a \in DOMAIN jobs, b \in DOMAIN jobs :
       /\ jobs[a].type \in {"generate", "chat"} /\ jobs[b].type = "series_ep"
       /\ {jobs[a].status, jobs[b].status} = {"done", "error"}

\* the coordinator is producing episode i: between the update_job that marks
\* it running and the update_job that reports how it ended
EpisodeWork ==
    {"rs_script", "rs_log_write", "rs_audio_progress", "rs_voices", "rs_save_write", "rs_done"}

\* the record of the job of episode j, if stored, has one of the statuses
JobOfIs(s, j, statuses) ==
    ser[s].entry_job_ids[j] \in DOMAIN jobs =>
       jobs[ser[s].entry_job_ids[j]].status \in statuses

\* C2 (checked under SpecSeries), as amended.  While the coordinator produces
\* episode i, the production of every earlier episode has ended and its job
\* is done or error or no longer stored, and the job of every later episode
\* is queued or no longer stored.
C2_InOrder ==
    \A s \in SeriesIdx :
       ser[s].pc \in EpisodeWork =>
          /\ Len(ser[s].out) = ser[s].i - 1
          /\ \A j \in 1..(ser[s].i - 1) : JobOfIs(s, j, {"done", "error"})
          /\ \A j \in (ser[s].i + 1)..Len(ser[s].entry_job_ids) : JobOfIs(s, j, {"queued"})

\* episode 2 is in production, its job running, the job of episode 1 done
C2_Witness ==
    \E s \in SeriesIdx :
       /\ ser[s].pc \in EpisodeWork /\ ser[s].i = 2
       /\ ser[s].entry_job_ids[1] \in DOMAIN jobs
       /\ jobs[ser[s].entry_job_ids[1]].status = "done"
       /\ ser[s].entry_job_ids[2] \in DOMAIN jobs
       /\ jobs[ser[s].entry_job_ids[2]].status = "running"

\* C2 as stated: while the coordinator produces episode i, the job of every
\* earlier episode has reached done or error (the update_job that reported
\* its end found it stored).
C2_AsStated ==
    \A s \in SeriesIdx :
       ser[s].pc \in EpisodeWork =>
          /\ Len(ser[s].term) = ser[s].i - 1
          /\ \A j \in 1..(ser[s].i - 1) : ser[s].term[j]

\* the series has run to its end after an outline of at least one episode
SeriesEnded(s) == ser[s].pc = "end" /\ ser[s].n > 0

\* the record of the series in series.json
SeriesRecord(s) == series[find_series(series, ser[s].id)]

\* the episodes whose production ended in one of the ways
EndedAs(s, ways) == {j \in 1..Len(ser[s].out) : ser[s].out[j] \in ways}

C4_SeriesShape ==
    \A k \in 1..Len(series) :
       series[k].status \in {"producing", "done"} =>
          /\ Len(series[k].job_ids) = Len(series[k].episodes)
          /\ Len(series[k].episodes) = series[k].total
          /\ series[k].completed <= series[k].total

\* a series record is done with no job_ids although its coordinator created
\* the jobs of its outline
C4_Witness ==
    \E s \in SeriesIdx :
       /\ ser[s].pc = "end" /\ Len(ser[s].job_ids) > 0
       /\ find_series(series, ser[s].id) # 0
       /\ SeriesRecord(s).status = "done"
       /\ SeriesRecord(s).job_ids = <<>>

\* the job of a submission, when the registry holds it
Stored(r) == req[r].job.id \in DOMAIN jobs
StoredJob(r) == jobs[req[r].job.id]

\* C5 (checked under Spec).  Every step of clear_queue keeps each record whose
\* status is running or done, unchanged; removes each record whose status is
\* queued or error; and the count it returns is the size of the registry
\* before the call minus its size after.
C5_ClearQueue ==
    [][clear_queue =>
        /\ \A k \in DOMAIN jobs : jobs[k].status \in {"running", "done"} =>
              k \in DOMAIN jobs' /\ jobs'[k] = jobs[k]
        /\ \A k \in DOMAIN jobs : jobs[k].status \in {"queued", "error"} =>
              k \notin DOMAIN jobs'
        /\ clear_count(jobs) = Cardinality(DOMAIN jobs) - Cardinality(DOMAIN jobs')]_vars

\* a job that ended was removed although the retention limit was never
\* exceeded, beside a finished job that is still stored
C5_Witness ==
    /\ nextId <= RetainCap
    /\ \E a \in Reqs, b \in Reqs :
          /\ req[a].pc = "end" /\ Stored(a) /\ StoredJob(a).status = "done"
          /\ req[b].pc = "end" /\ ~Stored(b)

\* C6 (checked under Spec).  In every reachable state the registry holds at
\* most RetainCap records (the 200 of _save_jobs).
C6_BoundedRetention == Cardinality(DOMAIN jobs) <= RetainCap

\* more jobs than the limit have been inserted and the registry is full
C6_Witness ==
    /\ Cardinality(DOMAIN jobs) = RetainCap
    /\ Cardinality({r \in Reqs : req[r].pc \notin {"idle", "create"}}) > RetainCap

\* C7 (checked under Spec).  Every create_job on a full registry deletes
\* exactly one of the records then present (the new one included), the
\* deleted record has the earliest created_at of them, and the new job is
\* stored afterwards.
C7_InsertEvictsOldest ==
    [][\A r \in Reqs :
          (create_job(r) /\ Cardinality(DOMAIN jobs) = RetainCap) =>
             LET new == req[r].job
                 all == DOMAIN jobs \cup {new.id}
                 stamp(k) == IF k = new.id THEN new.created_at ELSE jobs[k].created_at
                 gone == all \ DOMAIN jobs'
             IN /\ Cardinality(gone) = 1
                /\ \A g \in gone : \A k \in all : stamp(g) <= stamp(k)
                /\ new.id \in DOMAIN jobs']_vars

\* create_job has returned the id of a job that the registry, full of
\* records created later, does not hold
C7_Witness ==
    \E r \in Reqs :
       /\ req[r].pc = "g_running"
       /\ ~Stored(r)
       /\ Cardinality(DOMAIN jobs) = RetainCap
       /\ \A k \in DOMAIN jobs : jobs[k].created_at > req[r].job.created_at

\* C8 (checked under Spec).  A stored generate job with status error has
\* written no Episode record; one with status done has written exactly one,
\* the episode of its result.
C8_AllOrNothing ==
    \A r \in Reqs :
       (req[r].kind = "generate" /\ Stored(r)) =>
          /\ StoredJob(r).status = "error" => req[r].nEpisode = 0
          /\ StoredJob(r).status = "done" =>
                /\ req[r].nEpisode = 1
                /\ Len(req[r].entry) = 1
                /\ StoredJob(r).result = req[r].entry

\* one job is done with its episode written, another failed in audio synthesis
C8_Witness ==
    \E a \in Reqs, b \in Reqs :
       /\ Stored(a) /\ StoredJob(a).status = "done" /\ req[a].nEpisode = 1
       /\ Stored(b) /\ StoredJob(b).status = "error" /\ req[b].nAudio = 1

\* what a generate worker has done besides reporting
NoWork(r) ==
    /\ req[r].nScript = 0 /\ req[r].nGen = 0 /\ req[r].nLedger = 0
    /\ req[r].nAudio = 0 /\ req[r].nEpisode = 0

\* C9 (checked under Spec), as amended.  When both voice lookups of a
\* generate job return and one of them finds no voice, the worker has ended
\* without script synthesis, ledger entry, audio synthesis or Episode record,
\* and the job, if stored, has status error and error "Voice not found".
\* When a lookup raises, the worker has ended without any of that work too.
C9_VoiceNotFound ==
    \A r \in Reqs :
       /\ (req[r].kind = "generate" /\ req[r].va \in VoiceOutcomes
              /\ req[r].vb \in VoiceOutcomes /\ "None" \in {req[r].va, req[r].vb}) =>
             /\ req[r].pc = "end"
             /\ NoWork(r)
             /\ Stored(r) => StoredJob(r).status = "error" /\ StoredJob(r).error = VoiceNotFound
       /\ (req[r].kind = "generate" /\ "raise" \in {req[r].va, req[r].vb}) =>
             /\ req[r].pc = "end"
             /\ NoWork(r)
             /\ Stored(r) => StoredJob(r).status = "error"

\* a stored job whose second voice was not found
C9_Witness ==
    \E r \in Reqs :
       /\ req[r].kind = "generate" /\ req[r].va = "id" /\ req[r].vb = "None"
       /\ req[r].pc = "end" /\ Stored(r) /\ StoredJob(r).error = VoiceNotFound

\* C9 as stated: whenever a lookup of a generate job has found no voice, the
\* job, if stored, has status error and error "Voice not found" and no work
\* was done.
C9_AsStated ==
    \A r \in Reqs :
       (req[r].kind = "generate" /\ "None" \in {req[r].va, req[r].vb}) =>
          /\ req[r].pc = "end"
          /\ NoWork(r)
          /\ Stored(r) => StoredJob(r).status = "error" /\ StoredJob(r).error = VoiceNotFound

\* the worker is past log_production
PastLedger(r) ==
    \/ req[r].pc \in {"g_audio_progress", "g_audio", "g_save_write", "g_done"}
    \/ req[r].pc = "end" /\ req[r].va = "id" /\ req[r].vb = "id"

C11_OutlineFailure ==
    \A s \in SeriesIdx :
       ser[s].exc = "outline" =>
          /\ find_series(series, ser[s].id) # 0
          /\ SeriesRecord(s).status \in {"outlining", "error"}
          /\ ser[s].pc = "end" =>
                SeriesRecord(s).status = "error" /\ SeriesRecord(s).error = Raised
          /\ ser[s].job_ids = <<>>
          /\ \A k \in DOMAIN jobs : jobs[k].series_id # ser[s].id
          /\ \A k \in 1..Len(episodes) : episodes[k].series_id # ser[s].id
          /\ ser[s].out = <<>> /\ ser[s].nLedger = 0

\* the coordinator of a series whose outline raised has ended, and the record
\* of the series does not say error
C11_Witness ==
    \E s \in SeriesIdx :
       /\ ser[s].exc = "outline" /\ ser[s].pc = "end"
       /\ find_series(series, ser[s].id) # 0
       /\ SeriesRecord(s).status # "error"

\* the stored jobs of a series with status done, and its persisted Episodes
DoneJobsOf(id) == {k \in DOMAIN jobs : jobs[k].series_id = id /\ jobs[k].status = "done"}
EpisodesOf(id) == {k \in 1..Len(episodes) : episodes[k].series_id = id}

\* completed <= jobs done <= Episodes persisted, for every record of the list
CounterWithinProgress ==
    \A k \in 1..Len(series) :
       /\ series[k].completed <= Cardinality(DoneJobsOf(series[k].id))
       /\ Cardinality(DoneJobsOf(series[k].id)) <= Cardinality(EpisodesOf(series[k].id))

\* C12 (checked under SpecRace).  In every step that keeps the record of a
\* series, its completed stays or grows by one, and it grows only when a job of the series is done;
\* it is never reset; and after the step completed is at most the number of
\* the series' jobs with status done, which is at most the number of its
\* persisted Episode records.
C12_CounterIsProgress ==
    [][/\ \A s \in SeriesIdx :
             (find_series(series, ser[s].id) # 0 /\ find_series(series', ser[s].id) # 0) =>
                LET old == series[find_series(series, ser[s].id)].completed
                    new == series'[find_series(series', ser[s].id)].completed
                IN \/ new = old
                   \/ new = old + 1 /\ DoneJobsOf(ser[s].id) # {}
       /\ CounterWithinProgress']_vars

\* a series whose coordinator counted an episode has a record with completed 0
C12_Witness ==
    \E s \in SeriesIdx :
       /\ ser[s].pc = "end" /\ "done" \in {ser[s].out[j] : j \in 1..Len(ser[s].out)}
       /\ find_series(series, ser[s].id) # 0
       /\ SeriesRecord(s).completed = 0

\* the record of a job says error, with a message
SaysError(id) ==
    id \in DOMAIN jobs /\ jobs[id].status = "error" /\ jobs[id].error # NoError

\* C13 (checked under SpecRace).  When a single-job worker has ended without
\* its Episode, when the production of a series episode has raised or found a
\* voice unresolved, and when the coordinator of a series has ended through
\* its exception handler, the record of that job or series is stored with
\* status error and an error message.
C13_NoSilentFailure ==
    /\ \A r \in Reqs : (req[r].pc = "end" /\ req[r].nEpisode = 0) => SaysError(req[r].job.id)
    /\ \A s \in SeriesIdx :
          /\ \A j \in EndedAs(s, {"raised", "unresolved"}) : SaysError(ser[s].entry_job_ids[j])
          /\ (ser[s].pc = "end" /\ ser[s].exc # "none") =>
                /\ find_series(series, ser[s].id) # 0
                /\ SeriesRecord(s).status = "error"
                /\ SeriesRecord(s).error # NoError

\* the coordinator of a series has ended through its exception handler and
\* the list holds no record of the series
C13_Witness ==
    \E s \in SeriesIdx :
       /\ ser[s].pc = "end" /\ ser[s].exc # "none"
       /\ find_series(series, ser[s].id) = 0

\* ------------------------------------------------- functions under study

\* the topics a caller can pass: with title and tension, or lacking one
TopicShapes == {"complete", "no_title", "no_tension"}

\* generate_grounded_script for any topic: topic['title'] and topic['tension']
\* are read while the prompt is built, before the try
script_for(topic, ws, ns) ==
    IF topic = "complete" THEN generate_grounded_script(ws, ns)
    ELSE [script |-> "KeyError", calls |-> 0]

\* a call of generate_grounded_script, before it runs
InitScript ==
    /\ Quiet
    /\ aux \in [fn : {"script"}, topic : TopicShapes, ws : ScriptPayloads,
                ns : ScriptPayloads, script : {"unset"}, calls : {0}]

ScriptCall ==
    /\ aux.script = "unset"
    /\ aux' = [aux EXCEPT !.script = script_for(aux.topic, aux.ws, aux.ns).script,
                          !.calls = script_for(aux.topic, aux.ws, aux.ns).calls]
    /\ UnchangedButAux

NextScript == ScriptCall

SpecScript == InitScript /\ [][NextScript]_vars

\* C14 (checked under SpecScript).  Whatever the topic and whatever the two
\* calls of the generation service do, generate_grounded_script returns a
\* non-empty list of segments: the live script or the template.
C14_UsableScript ==
    aux.script \in {"unset", "live", "template"}

\* the payload parsed as the empty list and the empty list was returned
C14_Witness ==
    aux.topic = "complete" /\ aux.ws = "empty" /\ aux.script = "empty"

\* api_topics the only caller of get_topics_for_today, its calls one after the
\* other, beside requests for suggestions
NextTopics ==
    \/ gt_check("api") \/ gt_write("api")
    \/ ds_read \/ ds_stat_topics \/ ds_stat_suggestions \/ ds_regenerate
    \/ Elapse \/ Midnight

SpecTopics == Init /\ [][NextTopics]_vars

\* every reader and writer of the two caches
NextCaches ==
    \/ \E c \in TopicCallers : gt_check(c) \/ gt_write(c)
    \/ ds_read \/ ds_stat_topics \/ ds_stat_suggestions \/ ds_regenerate
    \/ cron_start \/ cron_suggest
    \/ Elapse \/ Midnight

SpecCaches == Init /\ [][NextCaches]_vars

\* C15 (checked under SpecTopics).  For calls of get_topics_for_today one after
\* the other: a call on the date of the call before it returns the cached
\* topics, leaves the cache alone and does not invoke
\* generate_topics_via_claude; a call on a later date (or the first call)
\* invokes it once and writes the cache tagged with the date of the call, and
\* returns what it wrote.
C15_TopicCache ==
    [][LET api == caches.gt["api"]
           api_ == caches'.gt["api"]
           begins == api.pc = "idle" /\ api_ # api
           writes == api.pc = "miss" /\ api_.pc = "idle"
       IN /\ (begins /\ caches.lastDay = caches.today) =>
                /\ api_.pc = "idle"
                /\ api_.ret = caches.topics_cache.content
                /\ caches'.topics_cache = caches.topics_cache
                /\ caches'.nTopicGen = caches.nTopicGen
          /\ (begins /\ caches.lastDay < caches.today) =>
                /\ api_.pc = "miss"
                /\ caches'.nTopicGen = caches.nTopicGen
          /\ writes =>
                /\ caches'.nTopicGen = caches.nTopicGen + 1
                /\ caches'.topics_cache.date = api.today
                /\ caches'.topics_cache.content = api_.ret
                /\ caches'.lastDay = api.today]_vars

\* the first call on the second date has regenerated and the next call on that
\* date was answered from the cache
C15_Witness ==
    /\ caches.nTopicGen = 2
    /\ caches.gt["api"].how = "cached"
    /\ caches.topics_cache.date = 1
    /\ caches.today = 1
    /\ caches.gt["api"].pc = "idle"
    /\ caches.lastDay = 1

\* C16 (checked under SpecCaches).  A request for suggestions that is answered
\* from the cache is answered with a suggestion set written after the last
\* write of the topic cache that preceded the request.
C16_NeverStale ==
    (caches.ds.pc = "idle" /\ caches.ds.answer = "cached" /\ caches.ds.tw0 > 0) =>
        caches.ds.cached.w > caches.ds.tw0

\* a request was answered from the cache after the topic cache had been written
C16_Witness ==
    /\ caches.ds.pc = "idle" /\ caches.ds.answer = "cached"
    /\ caches.ds.tw0 > 0
    /\ caches.ds.cached.w < caches.ds.tw0
    /\ caches.ds.cached.mtime = caches.ds.topics_mtime

\* the logs that are summarised
Logs == UNION {[1..n -> Events] : n \in 0..MaxLog}

\* a log on disk, before it is summarised
InitSummary ==
    /\ QuietPipeline
    /\ caches = ColdCaches
    /\ aux = NoCall
    /\ engagement \in [log : Logs, lock : {Free}, th : {[t \in Savers |-> IdleSaver]},
                       saved : {<<>>}, n : {0}]

NextSummary == get_engagement_summary

SpecSummary == InitSummary /\ [][NextSummary]_vars

\* what the log records about a title, read off the events themselves
EventsOfTitle(T) == {i \in 1..Len(engagement.log) : engagement.log[i].topic_title = T}

Recorded(T, et) == \E i \in EventsOfTitle(T) : engagement.log[i].event_type = et

MaxPlayPct(T) ==
    LET P == {IF engagement.log[i].pct = NoPct THEN 0 ELSE engagement.log[i].pct :
                 i \in {k \in EventsOfTitle(T) : engagement.log[k].event_type = "play_pct"}}
             \cup {0}
    IN CHOOSE m \in P : \A x \in P : x <= m

StrongCond(T) == Recorded(T, "listen_complete") \/ MaxPlayPct(T) >= 75

ModerateCond(T) ==
    /\ ~Recorded(T, "dismissed")
    /\ Recorded(T, "preview_started") \/ MaxPlayPct(T) >= 25
    /\ ~StrongCond(T)

DismissedCond(T) == Recorded(T, "dismissed")

Summarised == aux # NoCall /\ aux.fn = "summary"

\* C17 as stated: for every log, a title is in a bucket exactly when it meets
\* the bucket's condition.
C17_AsStated ==
    Summarised =>
       \A T \in Titles :
          /\ InSeq(T, aux.result.strong_interest) <=> StrongCond(T)
          /\ InSeq(T, aux.result.moderate_interest) <=> ModerateCond(T)
          /\ InSeq(T, aux.result.dismissed) <=> DismissedCond(T)

\* C17 (checked under SpecSummary).  For every log, a title in strong_interest,
\* moderate_interest or dismissed meets that bucket's condition, so strong and
\* moderate are disjoint and moderate and dismissed are disjoint; and a title
\* that meets a bucket's condition is in the bucket whenever no more titles
\* meet it than the bucket holds.  A title dismissed and later played to 75
\* percent or more is then in dismissed and in strong_interest and not in
\* moderate_interest.
C17_Classification ==
    Summarised =>
       \A T \in Titles :
          /\ InSeq(T, aux.result.strong_interest) => StrongCond(T)
          /\ InSeq(T, aux.result.moderate_interest) => ModerateCond(T)
          /\ InSeq(T, aux.result.dismissed) => DismissedCond(T)
          /\ (StrongCond(T) /\ Cardinality({U \in Titles : StrongCond(U)}) <= InterestCap)
                => InSeq(T, aux.result.strong_interest)
          /\ (ModerateCond(T) /\ Cardinality({U \in Titles : ModerateCond(U)}) <= InterestCap)
                => InSeq(T, aux.result.moderate_interest)
          /\ (DismissedCond(T) /\ Cardinality({U \in Titles : DismissedCond(U)}) <= DismissedCap)
                => InSeq(T, aux.result.dismissed)
          /\ ~(InSeq(T, aux.result.strong_interest) /\ InSeq(T, aux.result.moderate_interest))
          /\ ~(InSeq(T, aux.result.moderate_interest) /\ InSeq(T, aux.result.dismissed))

\* a title was dismissed, then played to 75 percent: it is summarised as
\* dismissed and strong, and another title as moderate
C17_Witness ==
    /\ Summarised
    /\ Len(engagement.log) = 3
    /\ engagement.log[1] = [ts |-> 0, event_type |-> "dismissed", topic_title |-> 1, pct |-> NoPct]
    /\ engagement.log[2] = [ts |-> 0, event_type |-> "play_pct", topic_title |-> 1, pct |-> 75]
    /\ engagement.log[3] = [ts |-> 0, event_type |-> "play_pct", topic_title |-> 2, pct |-> 25]
    /\ aux.result.strong_interest = <<1>>
    /\ aux.result.dismissed = <<1>>
    /\ aux.result.moderate_interest = <<2>>

FirstEvent(T) == CHOOSE i \in EventsOfTitle(T) : \A k \in EventsOfTitle(T) : i <= k

LastEvent(T) == CHOOSE i \in EventsOfTitle(T) : \A k \in EventsOfTitle(T) : i >= k

Min(a, b) == IF a <= b THEN a ELSE b

\* the titles that meet the condition of each bucket
StrongTitles == {T \in Titles : StrongCond(T)}

ModerateTitles == {T \in Titles : ModerateCond(T)}

DismissedTitles == {T \in Titles : DismissedCond(T)}

\* bucket holds at most n titles, none twice, all of them qualifying, as many
\* as qualify up to n, listed in the order of their first events
BucketShape(bucket, n, qualifying) ==
    /\ Len(bucket) = Min(n, Cardinality(qualifying))
    /\ \A i, j \in 1..Len(bucket) : i < j => bucket[i] # bucket[j]
    /\ \A i \in 1..Len(bucket) : bucket[i] \in qualifying
    /\ \A i, j \in 1..Len(bucket) : i < j => FirstEvent(bucket[i]) < FirstEvent(bucket[j])

\* the titles left out of bucket were last observed before every title in it
MostRecentlyObserved(bucket, qualifying) ==
    \A T \in qualifying :
       ~InSeq(T, bucket) =>
          \A i \in 1..Len(bucket) : LastEvent(T) < LastEvent(bucket[i])

\* C18 (checked under SpecSummary).  Each bucket holds at most its N titles,
\* none twice, in the order of their first events in the log, and they are
\* the N qualifying titles observed most recently: every qualifying title
\* left out has its latest event before the latest event of every title
\* returned.
C18_MostRecent ==
    Summarised =>
       /\ BucketShape(aux.result.strong_interest, InterestCap, StrongTitles)
       /\ BucketShape(aux.result.moderate_interest, InterestCap, ModerateTitles)
       /\ BucketShape(aux.result.dismissed, DismissedCap, DismissedTitles)
       /\ MostRecentlyObserved(aux.result.strong_interest, StrongTitles)
       /\ MostRecentlyObserved(aux.result.moderate_interest, ModerateTitles)
       /\ MostRecentlyObserved(aux.result.dismissed, DismissedTitles)

\* three titles were listened to in full, then the first was played again:
\* strong_interest leaves out the title observed last
C18_Witness ==
    /\ Summarised
    /\ Len(engagement.log) = 4
    /\ \A i \in 1..3 : engagement.log[i] =
          [ts |-> 0, event_type |-> "listen_complete", topic_title |-> i, pct |-> NoPct]
    /\ engagement.log[4] = [ts |-> 0, event_type |-> "play_pct", topic_title |-> 1, pct |-> 75]
    /\ aux.result.strong_interest = <<2, 3>>

\* api_engagement_log on a threaded server
NextSaves == \E t \in Savers : se_event(t) \/ se_load(t) \/ se_write(t)

SpecSaves == Init /\ [][NextSaves]_vars

\* C19 (checked under SpecSaves).  The engagement log never holds more than
\* the cap, and after any saves, concurrent or not, it is the latest
\* min(k, cap) of the k events saved, in the order they were saved.
C19_LogIsTail ==
    /\ Len(engagement.log) <= EventCap
    /\ engagement.log = LastN(engagement.saved, EventCap)

\* more events than the cap were saved by threads that overtook each other
\* between building the event and taking the lock
C19_Witness ==
    /\ Len(engagement.saved) = MaxSaves
    /\ Len(engagement.log) = EventCap
    /\ engagement.log[1].ts > engagement.log[2].ts
    /\ engagement.log[1] # engagement.saved[1]

Instants == 0..MaxInstant

\* the ledgers log_production can have written
Ledgers == UNION {[1..n -> {isoformat(t) : t \in Instants}] : n \in 0..MaxLedger}

\* a ledger on disk and the instant of a call of productions_this_week
InitWeek ==
    /\ jobs = << >> /\ nextId = 0 /\ clock = 0 /\ sec = 0
    /\ req = [r \in Reqs |-> IdleReq]
    /\ ledger \in Ledgers
    /\ episodes = << >> /\ series = << >>
    /\ ser = [s \in SeriesIdx |-> IdleSer]
    /\ feed = NoFeed /\ del = IdleDel /\ keys = Configured
    /\ caches = ColdCaches /\ engagement = FreshLog
    /\ aux \in [fn : {"week"}, now : Instants, result : {-1}]

NextWeek == week_count

SpecWeek == InitWeek /\ [][NextWeek]_vars

\* how many days and units of a day before now a ledger entry was written
AgeOf(ts) == aux.now - (ts.date * DayUnits + ts.time)

\* C20 (checked under SpecWeek).  productions_this_week returns the number of
\* ledger entries less than seven days old: an entry exactly seven days old
\* is not counted.  For a ledger of one entry 8 days old and two entries 2
\* days old it returns 2.
C20_CountsThisWeek ==
    aux.result # -1 =>
       /\ aux.result = Cardinality({i \in 1..Len(ledger) : AgeOf(ledger[i]) < WeekDays * DayUnits})
       /\ (/\ Len(ledger) = 3
           /\ AgeOf(ledger[1]) = 8 * DayUnits
           /\ AgeOf(ledger[2]) = 2 * DayUnits
           /\ AgeOf(ledger[3]) = 2 * DayUnits) => aux.result = 2

\* the ledger of the example was counted
C20_Witness ==
    /\ aux.result = 2
    /\ Len(ledger) = 3
    /\ AgeOf(ledger[1]) = 8 * DayUnits
    /\ AgeOf(ledger[2]) = 2 * DayUnits
    /\ AgeOf(ledger[3]) = 2 * DayUnits

\* the count api_topics reports has reached the weekly cap
AtCap == productions_this_week(ledger, sec) >= WeeklyCap

\* C21 (checked under SpecAll).  With productions_this_week at or above the
\* weekly cap every submission is still accepted as at any other count, the
\* handler still creates its job or series record, and every worker that has
\* been started can still take its next step: nothing waits for, or is
\* refused because of, the count.
C21_CapAdvisory ==
    AtCap =>
       /\ NextIdle(1) =>
             /\ \A t \in BOOLEAN : ENABLED api_generate(1, t)
             /\ ENABLED api_chat(1)
       /\ NextIdleSer(1) => \A n \in 1..MaxEpisodes : ENABLED api_series_create(1, n)
       /\ req[1].pc = "create" => ENABLED create_job(1)
       /\ (req[1].pc \notin {"idle", "create", "end"} /\ req[1].kind = "generate") =>
             ENABLED run_generate(1)
       /\ (req[1].pc \notin {"idle", "create", "end"} /\ req[1].kind = "chat") =>
             ENABLED run_chat(1)
       /\ ser[1].pc = "sc_save" => ENABLED sc_save(1)
       /\ ser[1].pc \notin {"idle", "sc_save", "end"} =>
             ENABLED run_create_series(1, OutlineLens)

\* a worker of a full production writes the ledger after loading it at the cap
C21_Witness ==
    /\ req[1].pc \in {"g_log_write", "c_log_write"}
    /\ productions_this_week(req[1].log, sec) >= WeeklyCap

\* ------------------------------------------------------- episode deletion

\* the submissions that run beside a delete request
DeleteReqs == 1..2

\* generate and trailer workers saving Episodes beside delete requests
NextDelete ==
    \/ \E r \in DeleteReqs : \E t \in BOOLEAN : api_generate(r, t)
    \/ \E r \in DeleteReqs : create_job(r)
    \/ \E r \in DeleteReqs : run_generate(r)
    \/ api_episode_delete
    \/ Tick

SpecDelete == Init /\ [][NextDelete]_vars

\* a delete request answers not-found in this step
AnswersNotFound == del'.n = del.n + 1 /\ del'.answer = "not_found"

\* a delete request writes the list and answers in this step
AnswersDeleted == del.pc = "ed_write" /\ del'.pc = "idle"

\* C22: a delete request for an id that no record of the Episode list has
\* answers not-found and changes neither the list nor the feed; a delete
\* request for an id in the list leaves the list as it was without the
\* records of that id, the other records unchanged and in order, and the
\* feed rebuilt by the request has no item of that id.
C22_Delete ==
    [][/\ AnswersNotFound =>
             /\ del'.ep_id \notin ids_of(episodes)
             /\ episodes' = episodes
             /\ feed' = feed
       /\ AnswersDeleted =>
             /\ del'.answer = "deleted"
             /\ episodes' = without(episodes, del.ep_id)
             /\ \A i \in 1..Len(feed'.items) : feed'.items[i] # del.ep_id]_vars

\* a delete request removed a record while another record is in the list
C22_Witness == del.answer = "deleted" /\ Len(episodes) > 0

\* ---------------------------------------------------- configuration errors

\* the process started with any of the four configurations
InitConfig ==
    /\ QuietFiles
    /\ keys \in Configurations
    /\ caches = ColdCaches /\ engagement = FreshLog /\ aux = NoCall

SpecConfig == InitConfig /\ [][NextAll]_vars

\* the work a submission asks for calls the generation service: a chat
\* episode, or a generated episode that is not a trailer
CallsGeneration(q) == q.kind = "chat" \/ (q.kind = "generate" /\ ~q.trailer)

\* C23: a submission is accepted (a job id is drawn and create_job and the
\* worker follow, or a Series record is built and saved) only when the
\* speech-service key is set and, for work that calls the generation
\* service, the generation-service key too; a submission that is refused
\* changes no registry entry, no Series record and no other file, and no
\* step follows it.
C23_ConfigErrors ==
    [][/\ \A r \in Reqs :
             /\ (req[r].pc = "idle" /\ req'[r].pc = "create") =>
                   /\ keys.eleven
                   /\ CallsGeneration(req'[r]) => keys.anthropic
             /\ (req[r].pc = "idle" /\ req'[r].pc = "refused") =>
                   UNCHANGED <<jobs, series, episodes, ledger, nextId>>
             /\ req[r].pc = "refused" => req'[r] = req[r]
       /\ \A s \in SeriesIdx :
             /\ (ser[s].pc = "idle" /\ ser'[s].pc = "sc_save") => keys.eleven /\ keys.anthropic
             /\ (ser[s].pc = "idle" /\ ser'[s].pc = "refused") =>
                   UNCHANGED <<jobs, series, episodes, ledger, nextId>>
             /\ ser[s].pc = "refused" => ser'[s] = ser[s]]_vars

\* without the generation-service key, a generated episode was queued, its
\* worker ran and the job ended done
C23_Witness ==
    /\ ~keys.anthropic
    /\ req[1].pc = "end" /\ req[1].kind = "generate" /\ ~req[1].trailer
    /\ req[1].job.id \in DOMAIN jobs /\ jobs[req[1].job.id].status = "done"

\* ------------------------------------------------------------- update_job

\* the ids update_job is called with: 1 and 2 can be stored, 3 never is
UpdateIds == 1..3

\* a stored job record: what create_job wrote, and the status a worker may
\* have set since
StoredJobs(k) ==
    {merge(new_job(k, t, k, 0, 0), [status |-> st, updated_at |-> k]) :
        t \in {"generate", "chat"}, st \in {"queued", "running"}}

\* the registries on disk before the calls
Registries ==
    UNION {{js \in [D -> UNION {StoredJobs(k) : k \in D}] : \A k \in D : js[k].id = k} :
              D \in SUBSET (1..2)}

\* the keyword arguments the workers pass to update_job
Kwargs ==
    {[status |-> "running", progress |-> "Connecting"],
     [progress |-> "Writing script"],
     [status |-> "error", error |-> Raised],
     [status |-> "done", progress |-> "Complete", result |-> <<"episode">>]}

InitUpdate ==
    /\ jobs \in Registries
    /\ nextId = 2 /\ clock = 2 /\ sec = 0
    /\ req = [r \in Reqs |-> IdleReq]
    /\ ledger = << >> /\ episodes = << >> /\ series = << >>
    /\ ser = [s \in SeriesIdx |-> IdleSer]
    /\ feed = NoFeed /\ del = IdleDel /\ keys = Configured
    /\ caches = ColdCaches /\ engagement = FreshLog
    /\ aux = [fn |-> "update", n |-> 0]

\* one call of update_job; before, id, kwargs and now record the call
update_call ==
    /\ aux.n < MaxUpdates
    /\ \E id \in UpdateIds : \E kwargs \in Kwargs :
          /\ jobs' = update_job_kwargs(jobs, id, kwargs, clock + 1)
          /\ aux' = [fn |-> "update", n |-> aux.n + 1, before |-> jobs, id |-> id,
                     kwargs |-> kwargs, now |-> clock + 1]
    /\ clock' = clock + 1
    /\ UNCHANGED <<nextId, sec, req, ledger, episodes, series, ser, caches, engagement, feed, del, keys>>

NextUpdate == update_call

SpecUpdate == InitUpdate /\ [][NextUpdate]_vars

\* C24 (checked under SpecUpdate).  A call of update_job with an id the
\* registry does not hold leaves the registry as it was: no record changes
\* and none is created.  A call with an id it holds leaves the set of ids
\* and every other record as they were, sets the fields given, sets updated_at
\* to the instant of the call, and leaves every field not given, among them
\* id, type and created_at, as it was.
C24_UpdateJob ==
    aux.n > 0 =>
       LET before == aux.before
           id == aux.id
       IN  IF id \notin DOMAIN before
           THEN jobs = before
           ELSE /\ DOMAIN jobs = DOMAIN before
                /\ \A k \in DOMAIN before \ {id} : jobs[k] = before[k]
                /\ \A f \in DOMAIN aux.kwargs : jobs[id][f] = aux.kwargs[f]
                /\ jobs[id].updated_at = aux.now
                /\ \A f \in DOMAIN before[id] \ (DOMAIN aux.kwargs \cup {"updated_at"}) :
                      jobs[id][f] = before[id][f]
                /\ jobs[id].id = before[id].id
                /\ jobs[id].type = before[id].type
                /\ jobs[id].created_at = before[id].created_at

\* a registry of two records: a call with the unknown id came after a call
\* that set the status of a stored record
C24_Witness ==
    /\ aux.n > 1
    /\ aux.id \notin DOMAIN aux.before
    /\ Cardinality(DOMAIN jobs) = 2
    /\ \E k \in DOMAIN jobs : jobs[k].status = "done" /\ jobs[k].updated_at > jobs[k].created_at

\* --------------------------------------------------------------- create_job

\* the prefixes str(uuid.uuid4())[:8] can return: a space of two stands for
\* the 16^8 of the source
JobIds == 1..NJobIds

\* the submissions whose ids are drawn from JobIds
CreateReqs == 1..2

\* api_generate with the keys set, the id drawn by uuid4 from the whole space
api_generate_drawn(r, is_trailer, job_id) ==
    /\ NextIdle(r)
    /\ clock' = clock + 1
    /\ req' = [req EXCEPT ![r].pc = "create", ![r].kind = "generate",
                          ![r].trailer = is_trailer,
                          ![r].job = new_job(job_id, "generate", clock + 1, 0, 0)]
    /\ UNCHANGED <<jobs, nextId, sec, ledger, episodes, series, ser, aux, caches, engagement, feed, del, keys>>

NextCreate ==
    \/ \E r \in CreateReqs : \E t \in BOOLEAN : \E id \in JobIds : api_generate_drawn(r, t, id)
    \/ \E r \in CreateReqs : create_job(r)
    \/ \E r \in CreateReqs : run_generate(r)
    \/ Tick

SpecCreate == Init /\ [][NextCreate]_vars

\* the worker of submission r has been started and has not returned
Working(r) == req[r].pc \notin {"idle", "create", "end", "refused"}

\* C25: create_job stores its record under an id no retained job has, every
\* record stored before is as it was, the new record is in the registry with
\* status queued when create_job returns, and no two workers hold the id of
\* one record.
C25_FreshId ==
    [][/\ \A r \in CreateReqs :
             (req[r].pc = "create" /\ req'[r].pc # "create") =>
                /\ req[r].job.id \notin DOMAIN jobs
                /\ \A k \in DOMAIN jobs : k \in DOMAIN jobs' /\ jobs'[k] = jobs[k]
                /\ req[r].job.id \in DOMAIN jobs'
                /\ jobs'[req[r].job.id] = req[r].job
                /\ jobs'[req[r].job.id].status = "queued"
       /\ \A r, q \in CreateReqs :
             (r # q /\ Working(r) /\ Working(q)) => req[r].job.id # req[q].job.id]_vars

\* two workers are running with the id of the same record
C25_Witness ==
    /\ Working(1) /\ Working(2)
    /\ req[1].job.id = req[2].job.id
    /\ req[1].job.id \in DOMAIN jobs
    /\ jobs[req[1].job.id].created_at = req[2].job.created_at

\* ------------------------------------------------------ documents on disk

\* Python values, by type
PyNone == [t |-> "None"]
PyStr(s) == [t |-> "str", v |-> s]
PyInt(n) == [t |-> "int", v |-> n]
PyBool(b) == [t |-> "bool", v |-> b]
PyList(q) == [t |-> "list", v |-> q]
PyDict(f) == [t |-> "dict", v |-> f]

\* the text of a file that json.loads rejects: truncated or half written
Garbage == [t |-> "garbage"]

\* a faulty json.dumps that writes None as the string "None"; C28 fails with it
RECURSIVE json_dumps_lossy(_)
json_dumps_lossy(x) ==
    CASE x.t = "None" -> [t |-> "string", v |-> "None"]
      [] x.t = "str" -> [t |-> "string", v |-> x.v]
      [] x.t = "int" -> [t |-> "number", v |-> x.v]
      [] x.t = "bool" -> [t |-> "boolean", v |-> x.v]
      [] x.t = "list" -> [t |-> "array", v |-> [i \in DOMAIN x.v |-> json_dumps_lossy(x.v[i])]]
      [] x.t = "dict" -> [t |-> "object", v |-> [k \in DOMAIN x.v |-> json_dumps_lossy(x.v[k])]]

\* json.dumps: the JSON text of a value, as its tree
RECURSIVE json_dumps(_)
json_dumps(x) ==
    CASE x.t = "None" -> [t |-> "null"]
      [] x.t = "str" -> [t |-> "string", v |-> x.v]
      [] x.t = "int" -> [t |-> "number", v |-> x.v]
      [] x.t = "bool" -> [t |-> "boolean", v |-> x.v]
      [] x.t = "list" -> [t |-> "array", v |-> [i \in DOMAIN x.v |-> json_dumps(x.v[i])]]
      [] x.t = "dict" -> [t |-> "object", v |-> [k \in DOMAIN x.v |-> json_dumps(x.v[k])]]

\* what json.loads raises on a text that is not JSON
JSONDecodeError == [t |-> "raise"]

\* json.loads: the value of a JSON text, or the exception
RECURSIVE json_loads(_)
json_loads(j) ==
    CASE j.t = "garbage" -> JSONDecodeError
      [] j.t = "null" -> PyNone
      [] j.t = "string" -> PyStr(j.v)
      [] j.t = "number" -> PyInt(j.v)
      [] j.t = "boolean" -> PyBool(j.v)
      [] j.t = "array" -> PyList([i \in DOMAIN j.v |-> json_loads(j.v[i])])
      [] j.t = "object" -> PyDict([k \in DOMAIN j.v |-> json_loads(j.v[k])])

\* a data file: absent, or present with a text
AbsentFile == [exists |-> FALSE, text |-> Garbage]
written_file(text) == [exists |-> TRUE, text |-> text]

\* a faulty loader without the try; C26 fails with it
load_document_unguarded(file, default) ==
    IF ~file.exists THEN default ELSE json_loads(file.text)

\* _load_jobs, load_series, load_episodes, get_production_log,
\* load_engagement: the default if the file does not exist, else the parsed
\* text, else (any exception) the default
load_document(file, default) ==
    IF ~file.exists THEN default
    ELSE IF json_loads(file.text) = JSONDecodeError THEN default
         ELSE json_loads(file.text)

DocNames == {"jobs", "series", "episodes", "ledger", "engagement"}

\* the defaults of the five loaders
default_of(name) == IF name = "jobs" THEN PyDict(<< >>) ELSE PyList(<< >>)

\* the dict create_job builds (ids and timestamps are strings in the source)
py_job(id, stamp) ==
    PyDict([id |-> PyInt(id), type |-> PyStr("generate"), status |-> PyStr("queued"),
            created_at |-> PyInt(stamp), result |-> PyNone, error |-> PyNone,
            series_id |-> PyNone, series_ep |-> PyNone])

\* the dict api_series_create builds
py_series(id, stamp) ==
    PyDict([id |-> PyInt(id), num_episodes |-> PyInt(2), status |-> PyStr("queued"),
            created_at |-> PyInt(stamp), episodes |-> PyList(<< >>), job_ids |-> PyList(<< >>),
            total |-> PyInt(2), completed |-> PyInt(0), error |-> PyNone])

\* the entry _run_generate builds
py_episode(id, stamp) ==
    PyDict([id |-> PyInt(id), file |-> PyStr("mp3"), file_size |-> PyInt(1),
            is_trailer |-> PyBool(id = 1), sources |-> PyList(<<PyStr("url")>>),
            published |-> PyInt(stamp)])

\* the event save_engagement_event builds
py_event(id, stamp) ==
    PyDict([ts |-> PyInt(stamp), event_type |-> PyStr("play"), topic_title |-> PyInt(id)])

\* _save_jobs on the dict loaded: the eviction, then the text
py_save_jobs(d) ==
    LET js == [k \in DOMAIN d.v |-> [created_at |-> d.v[k].v.created_at.v]]
        keep == DOMAIN save_jobs(js)
    IN  PyDict([k \in keep |-> d.v[k]])

\* the document a load-modify-save cycle writes: create_job, the append of
\* api_series_create, save_episode, log_production, save_engagement_event
modified(name, doc, id, stamp) ==
    CASE name = "jobs" ->
            py_save_jobs(PyDict([k \in DOMAIN doc.v \cup {id} |->
                                    IF k = id THEN py_job(id, stamp) ELSE doc.v[k]]))
      [] name = "series" -> PyList(Append(doc.v, py_series(id, stamp)))
      [] name = "episodes" -> PyList(Append(doc.v, py_episode(id, stamp)))
      [] name = "ledger" -> PyList(Append(doc.v, PyInt(stamp)))
      [] name = "engagement" -> PyList(cap_events(Append(doc.v, py_event(id, stamp))))

\* the document a save of the loaded, unmodified document writes
resaved(name, doc) == IF name = "jobs" THEN py_save_jobs(doc) ELSE doc

\* one document, its file, and the operations on it.  written is the value
\* of the last write; op, before, was and result record the last operation:
\* the file and the last written value before it, and what its load returned
InitStorage ==
    /\ QuietPipeline /\ caches = ColdCaches /\ engagement = FreshLog
    /\ aux \in [fn : {"storage"}, name : DocNames, file : {AbsentFile},
                written : {PyNone}, op : {"none"}, before : {AbsentFile}, was : {PyNone},
                result : {PyNone}, id : {0}, n : {0}]

\* a reader loads the document
st_load ==
    /\ aux.n < MaxOps
    /\ aux' = [aux EXCEPT !.op = "load", !.before = aux.file, !.was = aux.written,
                          !.result = load_document(aux.file, default_of(aux.name)),
                          !.n = @ + 1]
    /\ UnchangedButAux

\* a load-modify-save cycle
st_cycle ==
    /\ aux.n < MaxOps
    /\ \E id \in 1..NDocIds :
          LET doc == load_document(aux.file, default_of(aux.name))
              new == IF doc = JSONDecodeError THEN doc ELSE modified(aux.name, doc, id, aux.n + 1)
          IN  aux' = [aux EXCEPT !.op = "cycle", !.before = aux.file, !.was = aux.written,
                                 !.result = doc, !.id = id, !.n = @ + 1,
                                 !.file = IF doc = JSONDecodeError THEN aux.file
                                          ELSE written_file(json_dumps(new)),
                                 !.written = IF doc = JSONDecodeError THEN aux.written ELSE new]
    /\ UnchangedButAux

\* a load followed by a save of the unmodified document
st_resave ==
    /\ aux.n < MaxOps
    /\ LET doc == load_document(aux.file, default_of(aux.name))
           new == IF doc = JSONDecodeError THEN doc ELSE resaved(aux.name, doc)
       IN  aux' = [aux EXCEPT !.op = "resave", !.before = aux.file, !.was = aux.written,
                              !.result = doc, !.n = @ + 1,
                              !.file = IF doc = JSONDecodeError THEN aux.file
                                       ELSE written_file(json_dumps(new)),
                              !.written = IF doc = JSONDecodeError THEN aux.written ELSE new]
    /\ UnchangedButAux

\* the environment: the file is left truncated or half written
st_corrupt ==
    /\ aux.file.exists /\ aux.file.text # Garbage
    /\ aux' = [aux EXCEPT !.file = written_file(Garbage), !.op = "corrupt"]
    /\ UnchangedButAux

NextStorage == st_load \/ st_cycle \/ st_resave \/ st_corrupt

SpecStorage == InitStorage /\ [][NextStorage]_vars

\* the file holds a text that parses
Parses(file) == file.exists /\ file.text # Garbage

\* C26 (checked under SpecStorage).  For each of the five documents, a load
\* never raises; it returns the value last written when the file holds a text
\* that parses, and the empty default when the file is absent or does not
\* parse; and a load-modify-save cycle on a file that does not parse writes
\* what it writes on an absent file.
C26_ReadsNeverFail ==
    aux.op \in {"load", "cycle", "resave"} =>
       /\ aux.result # JSONDecodeError
       /\ aux.result = IF Parses(aux.before) THEN aux.was ELSE default_of(aux.name)
       /\ (aux.op = "cycle" /\ ~Parses(aux.before)) =>
             aux.file = written_file(json_dumps(modified(aux.name, default_of(aux.name), aux.id, aux.n)))

\* a cycle has run on a corrupt file that had held a written document
C26_Witness ==
    /\ aux.op = "cycle"
    /\ aux.before = written_file(Garbage)
    /\ aux.was # PyNone /\ aux.was # default_of(aux.name)
    /\ Parses(aux.file)

FeedReqs == 1..2

NextFeed ==
    \/ \E r \in FeedReqs : \E t \in BOOLEAN : api_generate(r, t)
    \/ \E r \in FeedReqs : create_job(r)
    \/ \E r \in FeedReqs : run_generate(r)
    \/ FeedFault
    \/ Tick

SpecFeed == Init /\ [][NextFeed]_vars

\* the worker of r runs save_episode in this step
SavesEpisode(r) == req[r].pc = "g_save_write" /\ req'[r].pc # "g_save_write"

\* C27: when build_feed raises inside save_episode, the Episode record has
\* been written to the list, feed.xml is left as it was, no error is reported
\* to the job and the worker goes on to update_job(done): the job, while
\* stored, then has status done with the Episode as its result.  A save whose
\* rebuild does not raise leaves the feed with the items of the list.
C27_FeedFailure ==
    [][\A r \in FeedReqs :
          /\ (SavesEpisode(r) /\ feed.faulty) =>
                /\ InSeq(req[r].entry[1], episodes')
                /\ feed' = feed
                /\ jobs' = jobs
                /\ req'[r].pc = "g_done"
          /\ (SavesEpisode(r) /\ ~feed.faulty) => feed'.items = feed_items(episodes')
          /\ (req[r].pc = "g_done" /\ req'[r].pc = "end" /\ req[r].job.id \in DOMAIN jobs') =>
                /\ jobs'[req[r].job.id].status = "done"
                /\ jobs'[req[r].job.id].result = req[r].entry]_vars

\* a job ended done whose Episode is in the list and not in the feed
C27_Witness ==
    /\ req[1].pc = "end" /\ ~req[1].trailer
    /\ req[1].job.id \in DOMAIN jobs
    /\ jobs[req[1].job.id].status = "done"
    /\ InSeq(jobs[req[1].job.id].result[1], episodes)
    /\ ~InSeq(jobs[req[1].job.id].result[1].id, feed.items)

\* ------------------------------------------------- Episodes under concurrency

\* the Episode in the result of a stored job
EpisodeOf(id) == jobs[id].result[1]

\* C29: the Episode in the result of every stored job with status done is in
\* the Episode list, unless a delete request has been made for its id.
C29_NoEpisodeLost ==
    \A id \in DOMAIN jobs :
       jobs[id].status = "done" =>
          \/ InSeq(EpisodeOf(id), episodes)
          \/ EpisodeOf(id).id \in del.targets

\* two jobs are done, no delete was requested, and the list holds one Episode
C29_Witness ==
    /\ del.targets = {}
    /\ Cardinality({id \in DOMAIN jobs : jobs[id].status = "done"}) = 2
    /\ Len(episodes) = 1

\* ------------------------------------------------- the ledger under concurrency

\* the calls of log_production that have returned
RECURSIVE LedgerCalls(_)
LedgerCalls(r) == IF r = 0 THEN 0 ELSE req[r].nLedger + LedgerCalls(r - 1)

\* C30: after k calls of log_production by the workers, in any interleaving,
\* the ledger holds k entries more than before (it was empty), so that
\* productions_this_week counts every production of the week.
C30_LedgerAppendOnly ==
    /\ Len(ledger) = LedgerCalls(NReq)
    /\ productions_this_week(ledger, sec) = LedgerCalls(NReq)

\* two workers have logged their production and the ledger holds one entry
C30_Witness ==
    /\ req[1].nLedger = 1 /\ req[2].nLedger = 1
    /\ Len(ledger) = 1

\* ------------------------------------------------ Series under concurrency

\* the order of the statuses of a Series record
StatusRank(st) ==
    CASE st = "queued" -> 0
      [] st = "outlining" -> 1
      [] st = "producing" -> 2
      [] OTHER -> 3

\* C31: in every step, a record that is in the Series list stays in it; its
\* status stays or moves forward along queued, outlining, producing,
\* done/error (and a terminal status is kept); and its episodes, job_ids and
\* completed are not replaced by an earlier value.
C31_SeriesSurvive ==
    [][\A k \in 1..Len(series) :
          LET id == series[k].id
              at == find_series(series', id)
          IN  /\ at # 0
              /\ StatusRank(series'[at].status) >= StatusRank(series[k].status)
              /\ StatusRank(series[k].status) = 3 => series'[at].status = series[k].status
              /\ Len(series'[at].episodes) >= Len(series[k].episodes)
              /\ Len(series'[at].job_ids) >= Len(series[k].job_ids)
              /\ series'[at].completed >= series[k].completed]_vars

\* a series whose coordinator saved its outline has a record that is queued
\* again, without job_ids
C31_Witness ==
    \E s \in SeriesIdx :
       /\ Len(ser[s].job_ids) > 0
       /\ find_series(series, ser[s].id) # 0
       /\ SeriesRecord(s).status = "queued"
       /\ SeriesRecord(s).job_ids = <<>>

\* ---------------------------------------------------- the registry lock

Callers == 1..NCallers

\* the fields the workers set with update_job
StatusUpdates == {[status |-> st] : st \in {"running", "done", "error"}}

\* a thread outside the registry functions
IdleCaller == [pc |-> "idle", op |-> "none", id |-> 0, kw |-> << >>, job |-> NoJob, jobs |-> << >>]

\* create_job, update_job, clear_queue, get_job and get_all_jobs on the
\* registry a thread has loaded: what it then holds, and saves if it saves
mutated(js, c) ==
    CASE c.op = "create" -> insert_job(js, c.job)
      [] c.op = "update" -> update_job(js, c.id, c.kw)
      [] c.op = "clear" -> save_jobs([k \in clear_keep(js) |-> js[k]])
      [] OTHER -> js

\* what the call returns: the id, nothing, the count, the record or None,
\* the registry
returned(js, c) ==
    CASE c.op = "create" -> <<c.id>>
      [] c.op = "update" -> << >>
      [] c.op = "clear" -> <<clear_count(js)>>
      [] c.op = "get" -> IF c.id \in DOMAIN js THEN <<js[c.id]>> ELSE << >>
      [] OTHER -> <<js>>

\* a faulty `with` that does not wait for the lock; C32 fails with it
lock_free_unchecked(lock) == TRUE

\* with _jobs_lock: the thread enters when no thread holds the lock
lock_free(lock) == lock = Free

\* the registry absent, the lock free, no call made.  atomic is the registry
\* that the calls, each taken whole in the order of their returns, leave;
\* ret and expect are what the last call returned and what it returns in
\* that order
InitLock ==
    /\ Quiet
    /\ aux = [fn |-> "lock", lock |-> Free, th |-> [t \in Callers |-> IdleCaller],
              atomic |-> << >>, ret |-> << >>, expect |-> << >>, n |-> 0]

\* a thread calls a registry function; create_job draws the id and builds
\* the job dict before it asks for the lock
rl_call(t) ==
    /\ aux.th[t].pc = "idle"
    /\ aux.n < MaxCalls
    /\ \/ /\ nextId' = nextId + 1
          /\ clock' = clock + 1
          /\ aux' = [aux EXCEPT !.n = @ + 1,
                        !.th[t] = [IdleCaller EXCEPT !.pc = "acquire", !.op = "create",
                                      !.id = nextId + 1,
                                      !.job = new_job(nextId + 1, "generate", clock + 1, 0, 0)]]
       \/ /\ \E op \in {"update", "clear", "get", "get_all"} :
             \E id \in 1..MaxCalls : \E kw \in StatusUpdates :
                /\ op \in {"clear", "get_all"} => id = 1
                /\ op # "update" => kw = [status |-> "running"]
                /\ aux' = [aux EXCEPT !.n = @ + 1,
                              !.th[t] = [IdleCaller EXCEPT !.pc = "acquire", !.op = op,
                                            !.id = id, !.kw = kw]]
          /\ UNCHANGED <<nextId, clock>>
    /\ UNCHANGED <<jobs, sec, req, ledger, episodes, series, ser, caches, engagement, feed, del, keys>>

\* with _jobs_lock: jobs = _load_jobs()
rl_load(t) ==
    /\ aux.th[t].pc = "acquire"
    /\ lock_free(aux.lock)
    /\ aux' = [aux EXCEPT !.lock = t, !.th[t].pc = "save", !.th[t].jobs = jobs]
    /\ UNCHANGED <<jobs, nextId, clock, sec, req, ledger, episodes, series, ser, caches, engagement, feed, del, keys>>

\* the call writes the registry at its end
Saves(c) ==
    \/ c.op \in {"create", "clear"}
    \/ c.op = "update" /\ c.id \in DOMAIN c.jobs

\* the change, _save_jobs(jobs) where the function saves, the release of the
\* lock and the return
rl_save(t) ==
    /\ aux.th[t].pc = "save"
    /\ jobs' = IF Saves(aux.th[t]) THEN mutated(aux.th[t].jobs, aux.th[t]) ELSE jobs
    /\ aux' = [aux EXCEPT !.lock = Free, !.th[t] = IdleCaller,
                          !.atomic = mutated(@, aux.th[t]),
                          !.ret = returned(aux.th[t].jobs, aux.th[t]),
                          !.expect = returned(aux.atomic, aux.th[t])]
    /\ UNCHANGED <<nextId, clock, sec, req, ledger, episodes, series, ser, caches, engagement, feed, del, keys>>

NextLock == \E t \in Callers : rl_call(t) \/ rl_load(t) \/ rl_save(t)

SpecLock == InitLock /\ [][NextLock]_vars

\* C32 (checked under SpecLock).  At most one thread is between the load and
\* the save of a registry function; whenever the lock is free the registry
\* is the one that the calls made so far leave when each is taken whole, in
\* the order of their returns (so no create or update of a retained job is
\* lost); and every call returns what it returns in that order.
C32_RegistryAtomic ==
    /\ Cardinality({t \in Callers : aux.th[t].pc = "save"}) <= 1
    /\ aux.lock = Free => jobs = aux.atomic
    /\ aux.ret = aux.expect

\* every thread has returned, after creates beyond the retention limit and an
\* update that set a stored job done
C32_Witness ==
    /\ aux.n >= 3
    /\ \A t \in Callers : aux.th[t].pc = "idle"
    /\ \E k \in DOMAIN jobs : jobs[k].status = "done"
    /\ Cardinality(DOMAIN jobs) = RetainCap
    /\ nextId > RetainCap

\* -------------------------------------------------- script and its sources

\* what follows the script in the text of a response: no SOURCES: line, one
\* with nothing after the colon, one with citations
SourceLines == {"none", "blank", "cited"}

\* the citations of a SOURCES: line, split at the commas
Citations == <<"source1", "source2">>

\* what a call of the generation service does: it raises (NoReply), or it
\* returns a text with a body (as in ScriptPayloads) and what follows the body
NoReply == [body |-> "fail", sources |-> "none"]

Replies == {NoReply} \cup [body : ScriptPayloads \ {"fail"}, sources : SourceLines]

\* the outcome of a call as generate_grounded_script(ws, ns) takes it
payload_of(reply) == reply.body

\* generate_grounded_script with the sources it returns: those of the text
\* whose body was returned as the script (full_text.rsplit("SOURCES:", 1),
\* split at the commas, the empty strings dropped), [] with the template
script_and_sources(topic, ws, ns) ==
    LET run == script_for(topic, payload_of(ws), payload_of(ns))
        last == IF ws = NoReply THEN ns ELSE ws
    IN  [script |-> run.script, calls |-> run.calls,
         sources |-> IF run.script \in {"live", "empty", "object"} /\ last.sources = "cited"
                     THEN Citations ELSE << >>]

\* a call of generate_grounded_script, before it runs
InitSources ==
    /\ Quiet
    /\ aux \in [fn : {"sources"}, topic : TopicShapes, ws : Replies, ns : Replies,
                script : {"unset"}, calls : {0}, sources : {<< >>}]

SourcesCall ==
    /\ aux.script = "unset"
    /\ LET out == script_and_sources(aux.topic, aux.ws, aux.ns)
       IN  aux' = [aux EXCEPT !.script = out.script, !.calls = out.calls,
                              !.sources = out.sources]
    /\ UnchangedButAux

NextSources == SourcesCall

SpecSources == InitSources /\ [][NextSources]_vars

\* the reply the script is taken from: that of the no-search call if the
\* web-search call raised
LastReply == IF aux.ws = NoReply THEN aux.ns ELSE aux.ws

\* the live attempts yielded a text that parses to a value with a length
Yielded == LastReply.body \in {"ok", "empty", "object"}

\* C33 (checked under SpecSources).  When generate_grounded_script has
\* returned: the no-search call was made if and only if the web-search call
\* raised; the template was returned if and only if the live attempts did not
\* yield a parsable script; with the template the sources are empty; and with
\* a parsed live response the sources are the citations of its SOURCES line,
\* empty if it has none.
C33_FallbackChain ==
    aux.script # "unset" =>
       /\ aux.calls = 2 <=> aux.ws = NoReply
       /\ aux.script = "template" <=> ~Yielded
       /\ aux.script = "template" => aux.sources = << >>
       /\ Yielded => aux.sources = IF LastReply.sources = "cited" THEN Citations ELSE << >>

\* the topic has no tension: no call was made and no template was returned
C33_Witness ==
    /\ aux.topic = "no_tension"
    /\ aux.script = "KeyError"
    /\ aux.calls = 0

\* ------------------------------------------------------ voice resolution

\* the characters of names, ids and requests: two letters, one of them in
\* both cases
Alphabet == {"a", "A", "b"}

MaxName == 2
MaxVoices == 2

\* str.lower, character by character
lower_char(c) == IF c = "A" THEN "a" ELSE c

lower(s) == [i \in 1..Len(s) |-> lower_char(s[i])]

\* Python's `sub in s` for strings
contains(sub, s) ==
    \E i \in 0..(Len(s) - Len(sub)) : SubSeq(s, i + 1, i + Len(sub)) = sub

\* the strings of at most MaxName characters
Names == UNION {[1..k -> Alphabet] : k \in 0..MaxName}

\* the ids of the catalog's voices: ids that are also names, and ids that
\* differ in case only
VoiceIds == {<<"a">>, <<"A">>, <<"a", "b">>}

\* what client.voices.get_all() returns
Catalogs == UNION {[1..k -> [name : Names, voice_id : VoiceIds]] : k \in 0..MaxVoices}

\* Python's None as resolve_voice returns it
NoVoice == <<"None">>

\* the voice at which a loop of resolve_voice returns: the first index of the
\* catalog among those that pass the loop's test, 0 if the loop ends
first_voice(passing) ==
    IF passing # {}
    THEN CHOOSE k \in passing : \A j \in passing : k <= j
    ELSE 0

\* resolve_voice on the catalog the service returned: the first voice whose
\* name is the request (cases ignored) or whose id is the request, else the
\* first whose name contains the request (cases ignored), else None
resolve_voice(voices, name_or_id) ==
    LET e == first_voice({k \in DOMAIN voices :
                 \/ lower(voices[k].name) = lower(name_or_id)
                 \/ voices[k].voice_id = name_or_id})
        w == first_voice({k \in DOMAIN voices :
                 contains(lower(name_or_id), lower(voices[k].name))})
    IN  IF e # 0 THEN voices[e].voice_id
        ELSE IF w # 0 THEN voices[w].voice_id
        ELSE NoVoice

\* a call of resolve_voice, before it runs
InitVoice ==
    /\ Quiet
    /\ aux \in [fn : {"voice"}, voices : Catalogs, name_or_id : Names,
                ret : {<<"unset">>}]

VoiceCall ==
    /\ aux.ret = <<"unset">>
    /\ aux' = [aux EXCEPT !.ret = resolve_voice(aux.voices, aux.name_or_id)]
    /\ UnchangedButAux

NextVoice == VoiceCall

SpecVoice == InitVoice /\ [][NextVoice]_vars

\* the voices of the catalog the request names, has the id of, is part of
\* the name of
NamedVoices == {k \in DOMAIN aux.voices : lower(aux.voices[k].name) = lower(aux.name_or_id)}

IdVoices == {k \in DOMAIN aux.voices : aux.voices[k].voice_id = aux.name_or_id}

PartVoices == {k \in DOMAIN aux.voices : contains(lower(aux.name_or_id), lower(aux.voices[k].name))}

\* C34 (checked under SpecVoice).  When resolve_voice has returned: if some
\* voice has the requested name (cases ignored) the result is the id of such
\* a voice; otherwise if some voice has the requested id the result is that
\* id; otherwise if some name contains the request (cases ignored) the result
\* is the id of the first such voice; otherwise it is None.
C34_Precedence ==
    aux.ret # <<"unset">> =>
       IF NamedVoices # {}
       THEN \E k \in NamedVoices : aux.ret = aux.voices[k].voice_id
       ELSE IF IdVoices # {}
       THEN aux.ret = aux.name_or_id
       ELSE IF PartVoices # {}
       THEN \E k \in PartVoices :
               /\ aux.ret = aux.voices[k].voice_id
               /\ \A j \in PartVoices : k <= j
       ELSE aux.ret = NoVoice

\* the request is the id of the first voice and the name of the second, and
\* the first voice's id was returned
C34_Witness ==
    /\ Len(aux.voices) = 2
    /\ aux.voices[1].voice_id = aux.name_or_id
    /\ lower(aux.voices[1].name) # lower(aux.name_or_id)
    /\ lower(aux.voices[2].name) = lower(aux.name_or_id)
    /\ aux.voices[2].voice_id # aux.name_or_id
    /\ aux.ret = aux.voices[1].voice_id

\* ------------------------------------------------ work whose record is gone

\* the worker of submission r runs and the registry no longer holds its job
Orphaned(r) == Working(r) /\ ~Stored(r)

\* C35 (checked under Spec).  A worker whose job record was removed by
\* clear_queue or by the retention limit is never blocked: its next step can
\* be taken.  The record never comes back, and the steps of that worker,
\* update_job calls included, leave the registry as it is.
C35_NoCancel ==
    /\ [](\A r \in Reqs : Orphaned(r) => ENABLED run_generate(r))
    /\ [][\A r \in Reqs : Orphaned(r) =>
            /\ req'[r].job.id \notin DOMAIN jobs'
            /\ req'[r] # req[r] => jobs' = jobs]_vars

\* a worker whose record was removed while it was queued, and one whose
\* record was evicted while it was running, have both finished; the first
\* appended its ledger entry and saved its episode, to which no job refers
C35_Witness ==
    \E r \in Reqs :
       /\ req[r].pc = "end" /\ ~Stored(r)
       /\ req[r].nLedger = 1 /\ req[r].nEpisode = 1
       /\ Len(req[r].entry) = 1
       /\ \E k \in 1..Len(episodes) : episodes[k] = req[r].entry[1]
       /\ \A k \in DOMAIN jobs : jobs[k].result # req[r].entry

\* ------------------------------------------------------ episode identifiers

\* C36 (checked under Spec).  In every reachable state no two records of the
\* Episode list have the same id.
C36_UniqueEpisodeIds ==
    \A i \in 1..Len(episodes), j \in 1..Len(episodes) :
       i # j => episodes[i].id # episodes[j].id

\* two trailer workers read the clock within the same second and both saved
\* their episode: the list holds two records with one id
C36_Witness ==
    \E a \in Reqs, b \in Reqs :
       /\ a # b
       /\ req[a].pc = "end" /\ req[b].pc = "end"
       /\ req[a].trailer /\ req[b].trailer
       /\ req[a].nEpisode = 1 /\ req[b].nEpisode = 1
       /\ req[a].entry = req[b].entry
       /\ \E i \in 1..Len(episodes), j \in 1..Len(episodes) :
             i < j /\ episodes[i] = req[a].entry[1] /\ episodes[j] = req[b].entry[1]

\* ------------------------------------------------- the jobs of ended series

\* the stored jobs created for the series of a record: those its job_ids
\* name and the series_ep jobs that carry its id
JobsOf(rec) ==
    {j \in DOMAIN jobs : jobs[j].type = "series_ep" /\ jobs[j].series_id = rec.id}
    \cup {j \in DOMAIN jobs : InSeq(j, rec.job_ids)}

\* C37 (checked under SpecRace).  Whenever the record of a series has status
\* done or error, every stored job created for the series has status done or
\* error.
C37_NoJobLeftBehind ==
    \A k \in 1..Len(series) :
       series[k].status \in {"done", "error"} =>
          \A j \in JobsOf(series[k]) : jobs[j].status \in {"done", "error"}

\* the coordinator of a series has ended and the record says error, while a
\* job created for the series is still queued
C37_Witness ==
    \E s \in SeriesIdx :
       /\ ser[s].pc = "end"
       /\ find_series(series, ser[s].id) # 0
       /\ SeriesRecord(s).status = "error"
       /\ \E j \in DOMAIN jobs :
             jobs[j].series_id = ser[s].id /\ jobs[j].status = "queued"

\* ------------------------------------------------------------ termination

\* the request thread of a series and its coordinator thread are scheduled
\* again and again while they have a step to take; a step that calls a
\* collaborator returns or raises
FairRace ==
    \A s \in SeriesIdx :
       /\ WF_vars(sc_save(s))
       /\ WF_vars(run_create_series(s, {1}))

\* series submitted and coordinated concurrently under fair scheduling
SpecRaceFair == SpecRace /\ FairRace

\* the record of the series of submission s says done or error
SeriesSettled(s) ==
    /\ find_series(series, ser[s].id) # 0
    /\ SeriesRecord(s).status \in {"done", "error"}

\* the i-th job the coordinator of s created is done or error, if the
\* registry still holds it
JobSettled(s, i) ==
    /\ Len(ser[s].job_ids) >= i
    /\ ser[s].job_ids[i] \in DOMAIN jobs =>
          jobs[ser[s].job_ids[i]].status \in {"done", "error"}

\* C38 (checked under SpecRaceFair).  Under fair scheduling every accepted
\* series eventually has a record with status done or error, and every job
\* created for it eventually has status done or error.
C38_Termination ==
    \A s \in SeriesIdx :
       /\ (ser[s].pc \notin {"idle", "refused"}) ~> SeriesSettled(s)
       /\ \A i \in 1..MaxEpisodes : (Len(ser[s].job_ids) >= i) ~> JobSettled(s, i)

\* every thread has ended, and a job is still queued or running or the
\* record of a series says neither done nor error: nothing is left to change
\* either
C38_Witness ==
    /\ \A s \in SeriesIdx : ser[s].pc = "end"
    /\ \/ \E j \in DOMAIN jobs : jobs[j].status \in {"queued", "running"}
       \/ \E s \in SeriesIdx : ~SeriesSettled(s)

\* ------------------------------------------------------- the cron endpoints

\* what secrets are made of: a character, and the substring "Bearer "
CronTokens == {"s", "Bearer "}

MaxSecret == 2
MaxBatch == 2
MaxRequests == 3

\* the strings a request carries as ?secret= and as Authorization header (the
\* empty string for an absent one)
SecretStrings == UNION {[1..k -> CronTokens] : k \in 0..MaxSecret}

\* CRON_SECRET: empty when the variable is not set
CronSecrets == {<< >>, <<"s">>, <<"s", "s">>}

\* the three variables of the environment the cron endpoints read
CronConfigurations == [anthropic : BOOLEAN, eleven : BOOLEAN, cron_secret : CronSecrets]

NotBearer(x) == x # "Bearer "

\* request.args.get("secret") or request.headers.get("Authorization", "")
\*    .replace("Bearer ", "")
supplied_secret(query, header) ==
    IF query # << >> THEN query ELSE SelectSeq(header, NotBearer)

\* a check that lets every request pass; C40 fails with it
authorized_any(secret) == TRUE

\* not (CRON_SECRET and secret != CRON_SECRET)
authorized(secret) == ~(keys.cron_secret # << >> /\ secret # keys.cron_secret)

\* nightly_trailer_log.json before the first run
NoRunLog == [exists |-> FALSE, date |-> -1, job_ids |-> << >>]

\* the dates of the calendar
Days == 0..MaxDay

\* a request thread outside the nightly-trailers handler, and what it was
\* answered last
IdleCron ==
    [pc |-> "idle", today |-> 0, force |-> FALSE, size |-> 0, job |-> NoJob,
     job_ids |-> << >>, status |-> "none", answer |-> << >>]

\* return jsonify(...): the thread is idle again with its answer
answered(c, force, status, job_ids) ==
    [c EXCEPT !.pc = "idle", !.force = force, !.status = status,
              !.answer = job_ids, !.job = NoJob, !.job_ids = << >>]

\* no cron request has arrived; last, endpoint and secret are the thread
\* of the latest request, the endpoint it went to and the secret it carried;
\* began, first and forced are the history of each date: the unforced runs
\* that created a job, the job ids the first run recorded, whether a forced
\* request was made
InitNightly ==
    /\ QuietFiles
    /\ keys \in {k \in CronConfigurations :
                   k.anthropic /\ k.eleven /\ k.cron_secret = <<"s">>}
    /\ caches = ColdCaches
    /\ engagement = FreshLog
    /\ aux = [fn |-> "cron", log |-> NoRunLog, th |-> [t \in Callers |-> IdleCron],
              launched |-> {}, calls |-> 0, last |-> 0, endpoint |-> "none", secret |-> << >>,
              began |-> [d \in Days |-> 0],
              first |-> [d \in Days |-> [set |-> FALSE, job_ids |-> << >>]],
              forced |-> [d \in Days |-> FALSE]]

\* api_cron_nightly_trailers up to the call of the generation service: the
\* secret, the run log of today unless forced, the keys; the files read for
\* the prompt are left as they are.  Clients are interchangeable: the
\* first request is the first thread's
api_cron_nightly_trailers(t, force, query, header) ==
    /\ aux.th[t].pc = "idle"
    /\ \A u \in Callers : u < t => aux.th[u] # IdleCron
    /\ aux.calls < MaxRequests
    /\ LET c == aux.th[t]
           today == caches.today
       IN  IF ~authorized(supplied_secret(query, header))
           THEN aux' = [aux EXCEPT !.calls = @ + 1, !.last = t, !.endpoint = "nightly-trailers",
                           !.secret = supplied_secret(query, header),
                           !.th[t] = answered(c, force, "unauthorized", << >>)]
           ELSE IF ~force /\ aux.log.exists /\ aux.log.date = today
           THEN aux' = [aux EXCEPT !.calls = @ + 1, !.last = t, !.endpoint = "nightly-trailers",
                           !.secret = supplied_secret(query, header),
                           !.th[t] = answered(c, force, "skipped", aux.log.job_ids)]
           ELSE IF ~keys.anthropic \/ ~keys.eleven
           THEN aux' = [aux EXCEPT !.calls = @ + 1, !.last = t, !.endpoint = "nightly-trailers",
                           !.secret = supplied_secret(query, header),
                           !.forced[today] = @ \/ force,
                           !.th[t] = answered(c, force, "not configured", << >>)]
           ELSE aux' = [aux EXCEPT !.calls = @ + 1, !.last = t, !.endpoint = "nightly-trailers",
                           !.secret = supplied_secret(query, header),
                           !.forced[today] = @ \/ force,
                           !.th[t] = [c EXCEPT !.pc = "generate", !.today = today,
                                               !.force = force,
                                               !.status = "none", !.answer = << >>]]
    /\ UnchangedButAux

\* the trailer job create_job builds
trailer_job == new_job(nextId + 1, "generate", clock + 1, 0, 0)

\* call_anthropic with web search, without it when that raises, json.loads:
\* an exception leaves the handler (the request fails), or up to MaxBatch
\* topics come back; the first create_job draws its id and reads the clock
nt_generate(t) ==
    /\ aux.th[t].pc = "generate"
    /\ \/ /\ aux' = [aux EXCEPT !.th[t] = answered(aux.th[t], aux.th[t].force, "failed", << >>)]
          /\ UNCHANGED <<nextId, clock>>
       \/ /\ aux' = [aux EXCEPT !.th[t].pc = "log", !.th[t].size = 0]
          /\ UNCHANGED <<nextId, clock>>
       \/ \E size \in 1..MaxBatch :
             /\ aux' = [aux EXCEPT !.th[t].pc = "create", !.th[t].size = size,
                                   !.th[t].job = trailer_job]
             /\ nextId' = nextId + 1
             /\ clock' = clock + 1
    /\ UNCHANGED <<jobs, sec, req, ledger, episodes, series, ser, caches, engagement, feed, del, keys>>

\* create_job under the lock; the worker thread starts; job_ids.append; the
\* next create_job draws its id, or the loop is over
nt_create(t) ==
    /\ aux.th[t].pc = "create"
    /\ jobs' = insert_job(jobs, aux.th[t].job)
    /\ LET c == aux.th[t]
           more == Len(c.job_ids) + 1 < c.size
           counted == [aux EXCEPT !.launched = @ \cup {c.job.id},
                          !.began[c.today] = IF c.job_ids = << >> /\ ~c.force
                                             THEN @ + 1 ELSE @]
       IN  /\ aux' = [counted EXCEPT
                         !.th[t].job_ids = Append(@, c.job.id),
                         !.th[t].job = IF more THEN trailer_job ELSE NoJob,
                         !.th[t].pc = IF more THEN "create" ELSE "log"]
           /\ nextId' = IF more THEN nextId + 1 ELSE nextId
           /\ clock' = IF more THEN clock + 1 ELSE clock
    /\ UNCHANGED <<sec, req, ledger, episodes, series, ser, caches, engagement, feed, del, keys>>

\* TRAILER_QUEUE_LOG.write_text(...); return jsonify(... job_ids ...)
nt_log(t) ==
    /\ aux.th[t].pc = "log"
    /\ LET c == aux.th[t]
       IN  aux' = [aux EXCEPT
                      !.log = [exists |-> TRUE, date |-> c.today, job_ids |-> c.job_ids],
                      !.first[c.today] = IF @.set THEN @
                                         ELSE [set |-> TRUE, job_ids |-> c.job_ids],
                      !.th[t] = answered(c, c.force, "queued", c.job_ids)]
    /\ UnchangedButAux

\* nightly-trailers requests from two clients, with the secret or another
\* as ?secret=, across a change of date
NextNightly ==
    \/ \E t \in Callers : \E force \in BOOLEAN : \E query \in {<<"s">>, <<"s", "s">>} :
          api_cron_nightly_trailers(t, force, query, << >>)
    \/ \E t \in Callers : nt_generate(t)
    \/ \E t \in Callers : nt_create(t)
    \/ \E t \in Callers : nt_log(t)
    \/ Midnight

SpecNightly == InitNightly /\ [][NextNightly]_vars

\* thread t is answered, or let in, on an unforced request
UnforcedRequest(t) ==
    /\ aux.th[t].pc = "idle"
    /\ aux'.calls = aux.calls + 1
    /\ aux'.last = t
    /\ ~aux'.th[t].force
    /\ aux'.th[t].status # "unauthorized"

\* C39 (checked under SpecNightly).  On a date without a forced request at
\* most one run creates trailer jobs; and an unforced request that arrives
\* after a run of the date has begun to create jobs is answered at once as
\* skipped, with the job ids the first run of the date recorded.
C39_OncePerDate ==
    /\ [](\A d \in Days : ~aux.forced[d] => aux.began[d] <= 1)
    /\ [][\A t \in Callers :
             (/\ UnforcedRequest(t)
              /\ ~aux.forced[caches.today]
              /\ aux.began[caches.today] >= 1) =>
                /\ aux'.th[t].pc = "idle"
                /\ aux'.th[t].status = "skipped"
                /\ aux.first[caches.today].set
                /\ aux'.th[t].answer = aux.first[caches.today].job_ids]_vars

\* two unforced requests of one date have both created a job and recorded
\* their batch
C39_Witness ==
    /\ \A t \in Callers : aux.th[t].pc = "idle" /\ aux.th[t].status = "queued"
    /\ \E d \in Days : aux.began[d] = 2 /\ ~aux.forced[d]
    /\ Cardinality(aux.launched) >= 2

\* no cron request has arrived, with or without CRON_SECRET, with or without
\* the two API keys; aq and mp are the latest answers of the autoqueue and
\* morning-prep endpoints
InitCron ==
    /\ QuietFiles
    /\ keys \in {k \in CronConfigurations : k.anthropic = k.eleven}
    /\ caches = ColdCaches
    /\ engagement = FreshLog
    /\ aux = [fn |-> "cron", log |-> NoRunLog, th |-> [t \in Callers |-> IdleCron],
              launched |-> {}, calls |-> 0, last |-> 0, endpoint |-> "none", secret |-> << >>,
              began |-> [d \in Days |-> 0],
              first |-> [d \in Days |-> [set |-> FALSE, job_ids |-> << >>]],
              forced |-> [d \in Days |-> FALSE],
              aq |-> "none", mp |-> "none"]

\* api_cron_autoqueue with autoqueue_ar_topic: the secret, the keys; no
\* intelligence, a call error or an unparsable payload is answered as failed;
\* else create_job("generate") and the worker thread starts
api_cron_autoqueue(query, header) ==
    /\ aux.calls < MaxRequests
    /\ IF ~authorized(supplied_secret(query, header))
       THEN /\ aux' = [aux EXCEPT !.calls = @ + 1, !.last = 0, !.endpoint = "autoqueue",
                            !.secret = supplied_secret(query, header), !.aq = "unauthorized"]
            /\ UNCHANGED <<jobs, nextId, clock>>
       ELSE IF ~keys.anthropic \/ ~keys.eleven
       THEN /\ aux' = [aux EXCEPT !.calls = @ + 1, !.last = 0, !.endpoint = "autoqueue",
                            !.secret = supplied_secret(query, header), !.aq = "not configured"]
            /\ UNCHANGED <<jobs, nextId, clock>>
       ELSE \/ /\ aux' = [aux EXCEPT !.calls = @ + 1, !.last = 0, !.endpoint = "autoqueue",
                            !.secret = supplied_secret(query, header), !.aq = "failed"]
               /\ UNCHANGED <<jobs, nextId, clock>>
            \/ /\ aux' = [aux EXCEPT !.calls = @ + 1, !.last = 0, !.endpoint = "autoqueue",
                            !.secret = supplied_secret(query, header), !.aq = "queued",
                                     !.launched = @ \cup {nextId + 1}]
               /\ jobs' = insert_job(jobs, trailer_job)
               /\ nextId' = nextId + 1
               /\ clock' = clock + 1
    /\ UNCHANGED <<sec, req, ledger, episodes, series, ser, caches, engagement, feed, del, keys>>

\* api_cron_morning_prep up to step 1: the secret; a run of today on record
\* is answered as skipped unless forced; else the run begins
api_cron_morning_prep(query, header) ==
    /\ caches.cron.pc = "idle"
    /\ aux.calls < MaxRequests
    /\ IF ~authorized(supplied_secret(query, header))
       THEN /\ aux' = [aux EXCEPT !.calls = @ + 1, !.last = 0, !.endpoint = "morning-prep",
                            !.secret = supplied_secret(query, header), !.mp = "unauthorized"]
            /\ caches' = caches
       ELSE \/ /\ aux' = [aux EXCEPT !.calls = @ + 1, !.last = 0, !.endpoint = "morning-prep",
                            !.secret = supplied_secret(query, header), !.mp = "skipped"]
               /\ caches' = caches
            \/ /\ aux' = [aux EXCEPT !.calls = @ + 1, !.last = 0, !.endpoint = "morning-prep",
                            !.secret = supplied_secret(query, header), !.mp = "accepted"]
               /\ caches' = [caches EXCEPT !.cron = [pc |-> "topics", today |-> caches.today]]
    /\ UNCHANGED <<jobs, nextId, clock, sec, req, ledger, episodes, series, ser, engagement, feed, del, keys>>

\* what a request carries: any Authorization header when it has no
\* ?secret=, and beside a ?secret= no header or a bearer token
CronRequests ==
    {r \in [query : SecretStrings, header : SecretStrings] :
        r.query = << >> \/ r.header \in {<< >>, <<"Bearer ", "s">>}}

\* requests to the three cron endpoints, and the steps of the runs they
\* start
NextCron ==
    \/ \E force \in BOOLEAN : \E r \in CronRequests :
          api_cron_nightly_trailers(1, force, r.query, r.header)
    \/ nt_generate(1) \/ nt_create(1) \/ nt_log(1)
    \/ \E r \in CronRequests : api_cron_autoqueue(r.query, r.header)
    \/ \E r \in CronRequests : api_cron_morning_prep(r.query, r.header)
    \/ gt_check("cron") \/ gt_write("cron") \/ cron_suggest
    \/ Midnight

SpecCron == InitCron /\ [][NextCron]_vars

\* the state of the cron endpoints without the latest request and the
\* answers given: what requests leave behind
Behind(a) ==
    [a EXCEPT !.calls = 0, !.last = 0, !.endpoint = "none", !.secret = << >>,
              !.aq = "none", !.mp = "none",
              !.th = [t \in Callers |->
                         [a.th[t] EXCEPT !.force = FALSE, !.status = "none", !.answer = << >>]]]

\* the answer to the latest request
Answer(a) ==
    CASE a.endpoint = "nightly-trailers" -> a.th[a.last].status
      [] a.endpoint = "autoqueue" -> a.aq
      [] a.endpoint = "morning-prep" -> a.mp
      [] OTHER -> "none"

\* C40 (checked under SpecCron).  With CRON_SECRET set, every step that is a
\* request to a cron endpoint whose secret differs from it is answered as
\* unauthorized and changes nothing else: no job, no worker, no cache, no run
\* log, no call of a collaborator.
C40_Unauthorized ==
    [][(/\ aux'.calls = aux.calls + 1
        /\ keys.cron_secret # << >>
        /\ aux'.secret # keys.cron_secret) =>
           /\ Answer(aux') = "unauthorized"
           /\ UNCHANGED <<jobs, nextId, clock, sec, req, ledger, episodes, series, ser,
                          caches, engagement, feed, del, keys>>
           /\ Behind(aux') = Behind(aux)]_vars

\* a run of the nightly trailers has created a job, and a request to each
\* endpoint stands answered as unauthorized
C40_Witness ==
    /\ keys.cron_secret # << >>
    /\ aux.launched # {}
    /\ aux.aq = "unauthorized"
    /\ aux.mp = "unauthorized"

====
